---- MODULE Spec2Model ----
(***************************************************************************)
(* Verification model of the goera judging engine.                         *)
(*                                                                         *)
(*   Spec       the dispatcher (judge serve) with its runner registry      *)
(*   SpecLive   the dispatcher with fair goroutine scheduling              *)
(*   SpecSubmit the dispatcher with requests that /submit turns away       *)
(*   SpecJudge  one request to a worker: runHandler / runJudge /          *)
(*              runTestCaseInDocker                                        *)
(*   SpecJudgeLive  the same with fair goroutine scheduling                *)
(*   SpecCompare    the comparison of a captured output with the expected  *)
(*   SpecSingle     the dispatcher that has one code-runner and a busy     *)
(*                  flag                                                   *)
(*   SpecSequential the registry commands given one at a time              *)
(*   SpecLock       the dispatcher with the steps of its mutex             *)
(*   SpecWait       the wait for a test case's container, with every case  *)
(*                  of its select                                          *)
(*   SpecStdin      the stdin goroutine of a test case, for any input      *)
(*   SpecSandbox    the creation of a test case's container for any        *)
(*                  memoryLimit and cpuCount of a request                  *)
(*   SpecRegistry   the registry commands (coderunner, killcoderunner,     *)
(*                  killallcoderunners) and the shutdown of judge serve    *)
(*   SpecRegistryLive  the same with every started command running on      *)
(*                  to its end                                             *)
(***************************************************************************)
EXTENDS Integers, Sequences, FiniteSets, TLC

\* ---------------------------------------------------------------- bounds
MaxSubs == 3
MaxRunners == 1
MaxOps == 2
MaxTests == 2
JudgeLen == 1
ActualLen == 5
ExpectedLen == 4
InputLen == 2

\* ------------------------------------------------------ program constants
DefaultPort == 8081

Accepted == "Accepted"
CompileError == "CompileError"
WrongAnswer == "WrongAnswer"
MemoryLimit == "MemoryLimit"
TimeLimit == "TimeLimit"
RuntimeError == "RuntimeError"

Result == {Accepted, CompileError, WrongAnswer, MemoryLimit, TimeLimit, RuntimeError}

\* ------------------------------------------------------------ state
VARIABLES
    stateFile,    \* runner_state.json as the serve process reads it: [exists, runners]
    pc,           \* per submission: position of its handler / goroutine
    port,         \* per submission: port its goroutine was started with (0 = none)
    snap,         \* per submission: the RunnerState submitHandler loaded
    queue,        \* the dispatcher's pending queue
    status,       \* per submission: result.Status the worker answered
    reports,      \* per submission: POSTs issued to the result sink
    doneCalls,    \* per submission: runnerDoneHandler calls its goroutine made
    started,      \* per submission: number of `go processSubmission` statements run for it
    popped,       \* number of submissions runnerDoneHandler took from the queue
    ended,        \* the paths on which a processSubmission has returned so far
    acks,         \* per request to /submit: the HTTP status submitHandler wrote, 0 before
    mu,           \* the dispatcher's mutex: 0 unlocked, else the submission whose
                  \* handler or goroutine holds it
    busy          \* the busy flag of the dispatcher that has a single code-runner

VARIABLES
    jpc,          \* position in runJudge
    nTests,       \* len(config.TestCases)
    memLimit,     \* config.MemoryLimitMB
    idx,          \* test cases the loop has begun
    tc,           \* the test case being run: [input, expected]
    overall,      \* overallResult
    jret,         \* what runJudge returned: [result, err] and the step it returned at
    exe,          \* the compiled executable on the host: none, present, removed
    tcResults,    \* results runTestCaseInDocker returned, in order
    tpc,          \* position in runTestCaseInDocker
    cont,         \* the test case's container: none, created, running, exited, removed
    teardown,     \* teardown calls issued for the container, in order
    judgeCtx,     \* the judging context ctx: live or expired
    prog,         \* what the program in the container does: [exits, code, out]
    copy,         \* the output goroutine: none, running, done
    writer,       \* the stdin goroutine: none, running, done
    stdoutBuf,    \* stdout captured so far
    waited,       \* what the wait select received: [kind, code]
    tres          \* what runTestCaseInDocker returned: [result, output]

VARIABLES
    hpc,          \* position in the worker's runHandler, or the return it left by
    tmpSrc,       \* the temporary source file: none, present, removed
    resp          \* the HTTP answer of the worker: [code, status]

hvars == <<hpc, tmpSrc, resp>>

jvars == <<jpc, nTests, memLimit, idx, tc, overall, jret, exe, tcResults, tpc, cont,
           teardown, judgeCtx, prog, copy, writer, stdoutBuf, waited, tres, hvars>>

VARIABLES
    cfgFile,      \* runner_config.json: [exists, ports]
    alive,        \* pids of the code-runner processes that are running
    ops,          \* the registry commands given so far: each one's position and locals
    serve         \* the `judge serve` process: running, in cleanup, or its exit

rvars == <<cfgFile, alive, ops, serve>>

VARIABLES
    memLimitHi,   \* config.MemoryLimitMB above its low 22 bits: the uint64 is
                  \* memLimitHi * Limb + memLimit
    cpuCount,     \* config.CPUCount, counted in halves of a nanoCPU
    sandbox,      \* the configuration the test case's container was created with
    stdin         \* the write side of the container's stdin: [written, writes, closeWrites, failed]

svars == <<memLimitHi, cpuCount, sandbox, stdin>>

dvars == <<stateFile, pc, port, snap, queue, status, reports, doneCalls, started, popped, ended,
           acks, mu, busy>>

SubIds == 1..MaxSubs
RunnerPorts == (DefaultPort + 1)..(DefaultPort + MaxRunners)

\* the answers a worker is drawn to give in the dispatcher's specification
WorkerAnswers == {Accepted, WrongAnswer}

\* ------------------------------------------------------------ registry
NoRunners == [exists |-> FALSE, runners |-> <<>>]

loadRunnerState(f) == IF f.exists THEN f.runners ELSE <<>>

addRunnerToState(f, p, pid) ==
    LET rs == loadRunnerState(f)
        hit == {i \in 1..Len(rs) : rs[i].port = p}
        rec == [port |-> p, pid |-> pid, state |-> "running"]
    IN IF hit # {}
       THEN LET i == CHOOSE j \in hit : \A k \in hit : j <= k
            IN [exists |-> TRUE, runners |-> [rs EXCEPT ![i] = rec]]
       ELSE [exists |-> TRUE, runners |-> Append(rs, rec)]

removeRunnerFromState(f, p) ==
    LET keep(r) == r.port # p IN
    [exists |-> TRUE, runners |-> SelectSeq(loadRunnerState(f), keep)]

\* ------------------------------------------------------------ dispatcher
isRunnerBusy(p) == FALSE

\* submitHandler's scan: index of the first runner it dispatches to, 0 if none
firstFreeRunner(rs) ==
    LET free == {i \in 1..Len(rs) : rs[i].state = "running" /\ ~isRunnerBusy(rs[i].port)}
    IN IF free = {} THEN 0 ELSE CHOOSE i \in free : \A j \in free : i <= j

\* a pop that takes the newest entry instead of the oldest
PopQueueLast(q) == [next |-> q[Len(q)], rest |-> SubSeq(q, 1, Len(q) - 1)]

\* runnerDoneHandler's pop
PopQueue(q) == [next |-> Head(q), rest |-> Tail(q)]

OpIds == 1..MaxOps

NoConfig == [exists |-> FALSE, ports |-> <<>>]
NoOp == [cmd |-> "none", pc |-> "new", port |-> 0, pid |-> 0, st |-> <<>>, cf |-> <<>>, i |-> 0]

\* the registry variables while no registry command is modelled
RIdle ==
    /\ cfgFile = NoConfig /\ alive = {} /\ ops = <<>> /\ serve = "running"

\* the value of a variable of a part of the program that a specification
\* leaves out
NotModelled == "-"

\* the dispatcher's variables in the specifications of a worker, which have no
\* dispatcher
DIdle ==
    /\ stateFile = NotModelled
    /\ pc = NotModelled /\ port = NotModelled /\ snap = NotModelled /\ queue = NotModelled
    /\ status = NotModelled /\ reports = NotModelled /\ doneCalls = NotModelled
    /\ started = NotModelled /\ popped = NotModelled /\ ended = NotModelled
    /\ acks = NotModelled /\ mu = NotModelled /\ busy = NotModelled
    /\ RIdle

DInit ==
    /\ stateFile = NoRunners
    /\ pc = [s \in SubIds |-> "none"]
    /\ port = [s \in SubIds |-> 0]
    /\ snap = [s \in SubIds |-> <<>>]
    /\ queue = <<>>
    /\ status = [s \in SubIds |-> "none"]
    /\ reports = [s \in SubIds |-> 0]
    /\ doneCalls = [s \in SubIds |-> 0]
    /\ started = [s \in SubIds |-> 0]
    /\ popped = 0
    /\ ended = {}
    /\ acks = [s \in SubIds |-> 0]
    /\ mu = 0
    /\ busy = FALSE
    /\ RIdle

\* `judge coderunner` in another process records the runner it started on port
\* p; the dispatcher never reads the pid, which stands as 0 here
runnerStarted(p) ==
    /\ ~\E i \in 1..Len(loadRunnerState(stateFile)) : loadRunnerState(stateFile)[i].port = p
    /\ stateFile' = addRunnerToState(stateFile, p, 0)
    /\ UNCHANGED <<pc, port, snap, queue, status, reports, doneCalls, started, popped, ended>>
    /\ UNCHANGED <<acks, mu, busy, jvars, rvars, svars>>

\* `judge killcoderunner` or the reaping goroutine drops the record of port p
runnerRemoved(p) ==
    /\ \E i \in 1..Len(loadRunnerState(stateFile)) : loadRunnerState(stateFile)[i].port = p
    /\ stateFile' = removeRunnerFromState(stateFile, p)
    /\ UNCHANGED <<pc, port, snap, queue, status, reports, doneCalls, started, popped, ended>>
    /\ UNCHANGED <<acks, mu, busy, jvars, rvars, svars>>

\* a rejection that also appends the request to the queue
submitRejectedQueues(s, code) ==
    /\ pc[s] = "none"
    /\ \A t \in SubIds : t < s => pc[t] # "none"
    /\ pc' = [pc EXCEPT ![s] = "rejected"]
    /\ acks' = [acks EXCEPT ![s] = code]
    /\ queue' = Append(queue, s)
    /\ UNCHANGED <<stateFile, port, snap, status, reports, doneCalls, started, popped, ended>>
    /\ UNCHANGED <<mu, busy, jvars, rvars, svars>>

\* submitHandler on a request that is not a POST (405) or whose body does not
\* decode (400): http.Error and return
submitRejected(s, code) ==
    /\ pc[s] = "none"
    /\ \A t \in SubIds : t < s => pc[t] # "none"
    /\ pc' = [pc EXCEPT ![s] = "rejected"]
    /\ acks' = [acks EXCEPT ![s] = code]
    /\ UNCHANGED <<stateFile, port, snap, queue, status, reports, doneCalls, started, popped, ended>>
    /\ UNCHANGED <<mu, busy, jvars, rvars, svars>>

\* submitHandler up to mu.Lock(): decode the body, load the runner state
submitLoad(s) ==
    /\ pc[s] = "none"
    /\ \A t \in SubIds : t < s => pc[t] # "none"
    /\ pc' = [pc EXCEPT ![s] = "submit"]
    /\ snap' = [snap EXCEPT ![s] = loadRunnerState(stateFile)]
    /\ UNCHANGED <<stateFile, port, queue, status, reports, doneCalls, started, popped, ended>>
    /\ UNCHANGED <<acks, mu, busy, jvars, rvars, svars>>

\* what submitHandler does between mu.Lock() and the deferred mu.Unlock():
\* dispatch to the first free runner or queue, and answer 202
submitCritical(s) ==
    /\ LET i == firstFreeRunner(snap[s]) IN
       IF i # 0
       THEN /\ pc' = [pc EXCEPT ![s] = "send"]
            /\ port' = [port EXCEPT ![s] = snap[s][i].port]
            /\ started' = [started EXCEPT ![s] = @ + 1]
            /\ UNCHANGED queue
       ELSE /\ pc' = [pc EXCEPT ![s] = "queued"]
            /\ queue' = Append(queue, s)
            /\ UNCHANGED <<port, started>>
    /\ snap' = [snap EXCEPT ![s] = <<>>]
    /\ acks' = [acks EXCEPT ![s] = 202]
    /\ UNCHANGED <<stateFile, status, reports, doneCalls, popped, ended>>
    /\ UNCHANGED <<busy, jvars, rvars, svars>>

\* submitHandler's critical section as one step: mu is taken and released
submitHandler(s) ==
    /\ pc[s] = "submit"
    /\ mu = 0
    /\ submitCritical(s)
    /\ UNCHANGED mu

\* a hand-over that dispatches the head of the queue and leaves it queued
runnerDoneHandlerKeepsHead(s) ==
    /\ doneCalls' = [doneCalls EXCEPT ![s] = @ + 1]
    /\ IF Len(queue) > 0
       THEN LET pop == PopQueue(queue) IN
            /\ queue' = queue
            /\ pc' = [pc EXCEPT ![s] = "done", ![pop.next] = "send"]
            /\ port' = [port EXCEPT ![s] = 0, ![pop.next] = port[s]]
            /\ started' = [started EXCEPT ![pop.next] = @ + 1]
            /\ popped' = popped + 1
       ELSE /\ pc' = [pc EXCEPT ![s] = "done"]
            /\ port' = [port EXCEPT ![s] = 0]
            /\ UNCHANGED <<queue, started, popped>>
    /\ status' = [status EXCEPT ![s] = "none"]

\* runnerDoneHandler(port[s]) called by the goroutine of submission s, which
\* returns right after the call
runnerDoneHandler(s) ==
    /\ doneCalls' = [doneCalls EXCEPT ![s] = @ + 1]
    /\ IF Len(queue) > 0
       THEN LET pop == PopQueue(queue) IN
            /\ queue' = pop.rest
            /\ pc' = [pc EXCEPT ![s] = "done", ![pop.next] = "send"]
            /\ port' = [port EXCEPT ![s] = 0, ![pop.next] = port[s]]
            /\ started' = [started EXCEPT ![pop.next] = @ + 1]
            /\ popped' = popped + 1
       ELSE /\ pc' = [pc EXCEPT ![s] = "done"]
            /\ port' = [port EXCEPT ![s] = 0]
            /\ UNCHANGED <<queue, started, popped>>
    \* the goroutine's result dies with it
    /\ status' = [status EXCEPT ![s] = "none"]

\* sendToCodeRunner returned an error: connection refused, non-200, bad body
sendFailed(s) ==
    /\ pc[s] = "send"
    /\ ended' = ended \cup {"noAnswer"}
    /\ runnerDoneHandler(s)
    /\ UNCHANGED <<stateFile, snap, reports>>
    /\ UNCHANGED <<acks, mu, busy, jvars, rvars, svars>>

\* sendToCodeRunner returned the worker's RunResponse
sendReturned(s, v) ==
    /\ pc[s] = "send"
    /\ pc' = [pc EXCEPT ![s] = "report"]
    /\ status' = [status EXCEPT ![s] = v]
    /\ UNCHANGED <<stateFile, port, snap, queue, reports, doneCalls, started, popped, ended>>
    /\ UNCHANGED <<acks, mu, busy, jvars, rvars, svars>>

\* json.Marshal(result) or http.NewRequest returned an error
reportBuildFailed(s, why) ==
    /\ pc[s] = "report"
    /\ ended' = ended \cup {"noAnswer"}
    /\ runnerDoneHandler(s)
    /\ UNCHANGED <<stateFile, snap, reports>>
    /\ UNCHANGED <<acks, mu, busy, jvars, rvars, svars>>

\* client.Do(req) is issued
reportPost(s) ==
    /\ pc[s] = "report"
    /\ pc' = [pc EXCEPT ![s] = "posting"]
    /\ reports' = [reports EXCEPT ![s] = @ + 1]
    /\ UNCHANGED <<stateFile, port, snap, queue, status, doneCalls, started, popped, ended>>
    /\ UNCHANGED <<acks, mu, busy, jvars, rvars, svars>>

\* a return after a failed client.Do that forgets to free the worker
reportReturnedNoDone(s, how) ==
    /\ pc[s] = "posting"
    /\ ended' = ended \cup {IF how = "ok" THEN "delivered" ELSE "undelivered"}
    /\ IF how = "doErr"
       THEN /\ pc' = [pc EXCEPT ![s] = "done"]
            /\ port' = [port EXCEPT ![s] = 0]
            /\ status' = [status EXCEPT ![s] = "none"]
            /\ UNCHANGED <<queue, started, popped, doneCalls>>
       ELSE runnerDoneHandler(s)
    /\ UNCHANGED <<stateFile, snap, reports>>
    /\ UNCHANGED <<acks, mu, busy, jvars, rvars, svars>>

\* client.Do returned: transport error, non-OK status or OK
reportReturned(s, how) ==
    /\ pc[s] = "posting"
    /\ ended' = ended \cup {IF how = "ok" THEN "delivered" ELSE "undelivered"}
    /\ runnerDoneHandler(s)
    /\ UNCHANGED <<stateFile, snap, reports>>
    /\ UNCHANGED <<acks, mu, busy, jvars, rvars, svars>>

processSubmission(s) ==
    \/ sendFailed(s)
    \/ \E v \in WorkerAnswers : sendReturned(s, v)
    \/ \E why \in {"marshalErr", "newRequestErr"} : reportBuildFailed(s, why)
    \/ reportPost(s)
    \/ \E how \in {"doErr", "nonOK", "ok"} : reportReturned(s, how)

DNext ==
    \/ \E p \in RunnerPorts : runnerStarted(p)
    \/ \E p \in RunnerPorts : runnerRemoved(p)
    \/ \E s \in SubIds : submitLoad(s)
    \/ \E s \in SubIds : submitHandler(s)
    \/ \E s \in SubIds : processSubmission(s)

\* ------------------------------------------------------------ the report
\* a JSON object is a function from its keys; decoding into a struct reads the
\* keys the struct's tags name and leaves a field without its key at zero
jsonUint(obj, key) == IF key \in DOMAIN obj THEN obj[key] ELSE 0

\* json.Marshal of the dispatcher's PendingSubmission with SubmissionID s
marshalPendingSubmission(s) == [submissionId |-> s]

\* the worker's runHandler: the body decoded into SubmissionRequest, whose id
\* field is tagged questionId
decodeSubmissionRequest(obj) == [QuestionID |-> jsonUint(obj, "questionId")]

\* the worker's runHandler: the RunResponse it encodes for request req and
\* result v
encodeRunResponse(req, v) == [questionId |-> req.QuestionID, status |-> v]

\* sendToCodeRunner: the worker's answer decoded into the dispatcher's
\* RunResponse, whose id field is tagged submissionId
decodeRunResponse(obj) == [SubmissionID |-> jsonUint(obj, "submissionId"), Status |-> obj.status]

\* sendToCodeRunner for submission s when the worker's result is v
sendToCodeRunner(s, v) ==
    decodeRunResponse(encodeRunResponse(decodeSubmissionRequest(marshalPendingSubmission(s)), v))

\* the request processSubmission posts for submission s: the id in the URL is
\* sub.SubmissionID, the body is json.Marshal(result)
reportRequest(s) ==
    LET result == sendToCodeRunner(s, status[s])
    IN [id |-> s, body |-> [submissionId |-> result.SubmissionID, status |-> result.Status]]

\* ------------------------------------------------------------ the mutex
\* submitHandler: mu.Lock() returns
submitLock(s) ==
    /\ pc[s] = "submit"
    /\ mu = 0
    /\ mu' = s
    /\ pc' = [pc EXCEPT ![s] = "submitLocked"]
    /\ UNCHANGED <<stateFile, port, snap, queue, status, reports, doneCalls, started, popped, ended>>
    /\ UNCHANGED <<acks, busy, jvars, rvars, svars>>

\* submitHandler from mu.Lock() to its return, where the deferred mu.Unlock() runs
submitUnlock(s) ==
    /\ pc[s] = "submitLocked"
    /\ mu = s
    /\ submitCritical(s)
    /\ mu' = 0

\* processSubmission gets to one of its calls of runnerDoneHandler: after
\* the error of sendToCodeRunner, json.Marshal, http.NewRequest or client.Do,
\* or after the answer of the internal API
callRunnerDone(s, how) ==
    /\ pc[s] = CASE how = "sendErr" -> "send"
                 [] how \in {"marshalErr", "newRequestErr"} -> "report"
                 [] OTHER -> "posting"
    /\ pc' = [pc EXCEPT ![s] = "doneWait"]
    /\ ended' = ended \cup {CASE how = "ok" -> "delivered"
                             [] how \in {"doErr", "nonOK"} -> "undelivered"
                             [] OTHER -> "noAnswer"}
    /\ UNCHANGED <<stateFile, port, snap, queue, status, reports, doneCalls, started, popped>>
    /\ UNCHANGED <<acks, mu, busy, jvars, rvars, svars>>

\* runnerDoneHandler: mu.Lock() returns
runnerDoneLock(s) ==
    /\ pc[s] = "doneWait"
    /\ mu = 0
    /\ mu' = s
    /\ pc' = [pc EXCEPT ![s] = "doneLocked"]
    /\ UNCHANGED <<stateFile, port, snap, queue, status, reports, doneCalls, started, popped, ended>>
    /\ UNCHANGED <<acks, busy, jvars, rvars, svars>>

\* a runnerDoneHandler that starts the next goroutine and keeps the mutex
runnerDoneKeepsLock(s) ==
    /\ pc[s] = "doneLocked"
    /\ mu = s
    /\ runnerDoneHandler(s)
    /\ UNCHANGED <<stateFile, snap, reports, ended>>
    /\ UNCHANGED <<acks, mu, busy, jvars, rvars, svars>>

\* runnerDoneHandler from mu.Lock() to its return, where the deferred
\* mu.Unlock() runs
runnerDoneUnlock(s) ==
    /\ pc[s] = "doneLocked"
    /\ mu = s
    /\ runnerDoneHandler(s)
    /\ mu' = 0
    /\ UNCHANGED <<stateFile, snap, reports, ended>>
    /\ UNCHANGED <<acks, busy, jvars, rvars, svars>>

LockNext ==
    \/ \E p \in RunnerPorts : runnerStarted(p)
    \/ \E s \in SubIds : submitLoad(s)
    \/ \E s \in SubIds : submitLock(s)
    \/ \E s \in SubIds : submitUnlock(s)
    \/ \E s \in SubIds : sendReturned(s, Accepted)
    \/ \E s \in SubIds : reportPost(s)
    \/ \E s \in SubIds,
          how \in {"sendErr", "marshalErr", "newRequestErr", "doErr", "nonOK", "ok"} :
           callRunnerDone(s, how)
    \/ \E s \in SubIds : runnerDoneLock(s)
    \/ \E s \in SubIds : runnerDoneUnlock(s)

\* ------------------------------------------------------------ single runner
\* the dispatcher with one code-runner and a busy flag: submitHandler's
\* critical section and its 202
singleSubmitHandler(s) ==
    /\ pc[s] = "none"
    /\ \A t \in SubIds : t < s => pc[t] # "none"
    /\ mu = 0
    /\ IF ~busy
       THEN /\ pc' = [pc EXCEPT ![s] = "send"]
            /\ started' = [started EXCEPT ![s] = @ + 1]
            /\ busy' = TRUE
            /\ UNCHANGED queue
       ELSE /\ pc' = [pc EXCEPT ![s] = "queued"]
            /\ queue' = Append(queue, s)
            /\ UNCHANGED <<started, busy>>
    /\ acks' = [acks EXCEPT ![s] = 202]
    /\ UNCHANGED <<stateFile, port, snap, status, reports, doneCalls, popped, ended>>
    /\ UNCHANGED <<mu, jvars, rvars, svars>>

\* processSubmission: sendToCodeRunner returned an error; the goroutine logs
\* it and returns
singleSendFailed(s) ==
    /\ pc[s] = "send"
    /\ pc' = [pc EXCEPT ![s] = "done"]
    /\ ended' = ended \cup {"noAnswer"}
    /\ UNCHANGED <<stateFile, port, snap, queue, status, reports, doneCalls, started, popped>>
    /\ UNCHANGED <<acks, mu, busy, jvars, rvars, svars>>

\* processSubmission: sendToCodeRunner returned the worker's answer, and
\* runnerDoneHandler hands the runner to the head of the queue or clears busy
singleSendReturned(s, v) ==
    /\ pc[s] = "send"
    /\ mu = 0
    /\ status' = [status EXCEPT ![s] = v]
    /\ doneCalls' = [doneCalls EXCEPT ![s] = @ + 1]
    /\ IF Len(queue) > 0
       THEN LET pop == PopQueue(queue) IN
            /\ queue' = pop.rest
            /\ pc' = [pc EXCEPT ![s] = "report", ![pop.next] = "send"]
            /\ started' = [started EXCEPT ![pop.next] = @ + 1]
            /\ popped' = popped + 1
            /\ busy' = TRUE
       ELSE /\ pc' = [pc EXCEPT ![s] = "report"]
            /\ busy' = FALSE
            /\ UNCHANGED <<queue, started, popped>>
    /\ UNCHANGED <<stateFile, port, snap, reports, ended>>
    /\ UNCHANGED <<acks, mu, jvars, rvars, svars>>

\* processSubmission after runnerDoneHandler: the report is built and posted,
\* and the goroutine returns whatever comes of it
singleReport(s, how) ==
    /\ pc[s] = "report"
    /\ pc' = [pc EXCEPT ![s] = "done"]
    /\ reports' = [reports EXCEPT ![s] = IF how \in {"marshalErr", "newRequestErr"} THEN @ ELSE @ + 1]
    /\ ended' = ended \cup {CASE how = "ok" -> "delivered"
                             [] how \in {"doErr", "nonOK"} -> "undelivered"
                             [] OTHER -> "noAnswer"}
    /\ status' = [status EXCEPT ![s] = "none"]
    /\ UNCHANGED <<stateFile, port, snap, queue, doneCalls, started, popped>>
    /\ UNCHANGED <<acks, mu, busy, jvars, rvars, svars>>

SingleNext ==
    \/ \E s \in SubIds : singleSubmitHandler(s)
    \/ \E s \in SubIds : singleSendFailed(s)
    \/ \E s \in SubIds, v \in WorkerAnswers : singleSendReturned(s, v)
    \/ \E s \in SubIds, how \in {"marshalErr", "newRequestErr", "doErr", "nonOK", "ok"} :
           singleReport(s, how)

\* ------------------------------------------------------------ registry commands
\* the dispatcher's variables other than the runner state file
qvars == <<pc, port, snap, queue, status, reports, doneCalls, started, popped, ended, acks, mu, busy>>

\* ports a command line may name with --port
ExplicitPorts == (DefaultPort + 1)..(DefaultPort + MaxRunners + 1)

\* loadPortConfig: the ports it returns, and the file it leaves (a missing file
\* is created with the default port)
loadPortConfig(f) == IF f.exists THEN f.ports ELSE <<DefaultPort>>

afterLoadPortConfig(f) == IF f.exists THEN f ELSE [exists |-> TRUE, ports |-> <<DefaultPort>>]

\* getNextPort on the ports loaded
getNextPort(ports) ==
    IF Len(ports) = 0 THEN DefaultPort + 1
    ELSE LET all == {ports[i] : i \in 1..Len(ports)} \cup {DefaultPort}
         IN (CHOOSE h \in all : \A q \in all : q <= h) + 1

\* an addPort that appends the port whether or not the list holds it
addPortAlways(ports, p) == Append(ports, p)

\* addPort on the ports loaded: the list to save
addPort(ports, p) ==
    IF \E i \in 1..Len(ports) : ports[i] = p THEN ports ELSE Append(ports, p)

\* removePort on the ports loaded: the list to save
removePort(ports, p) == LET keep(q) == q # p IN SelectSeq(ports, keep)

\* the state file holding the runners rs
stateOf(rs) == [exists |-> TRUE, runners |-> rs]

\* a command that has not been given yet; commands are given in order
Fresh(o) == o = Len(ops) + 1

\* a command that has been given
Given(o) == o \in DOMAIN ops

\* the command of o has ended at position at; its loaded copies are dropped
opEnds(o, at) == [ops[o] EXCEPT !.pc = at, !.st = <<>>, !.cf = <<>>, !.i = 0]

\* `judge coderunner [--port arg]`: arg 0 asks getNextPort for the port
mainCodeRunner(o, arg) ==
    /\ Fresh(o)
    /\ ops' = Append(ops, [NoOp EXCEPT !.cmd = "spawn", !.pc = "start",
                  !.port = IF arg = 0 THEN getNextPort(loadPortConfig(cfgFile)) ELSE arg])
    /\ cfgFile' = IF arg = 0 THEN afterLoadPortConfig(cfgFile) ELSE cfgFile
    /\ UNCHANGED <<stateFile, alive, serve, qvars, jvars, svars>>

\* startCodeRunner: cmd.Start (a failure is fatal), then addRunnerToState
\* loads the runner state
startCodeRunner(o, ok) ==
    /\ Given(o)
    /\ ops[o].cmd = "spawn" /\ ops[o].pc = "start"
    /\ IF ok
       THEN /\ alive' = alive \cup {o}
            /\ ops' = [ops EXCEPT ![o] = [@ EXCEPT !.pc = "addRunnerSave", !.pid = o,
                                                  !.st = loadRunnerState(stateFile)]]
       ELSE /\ ops' = [ops EXCEPT ![o] = opEnds(o, "startFailed")]
            /\ UNCHANGED alive
    /\ UNCHANGED <<stateFile, cfgFile, serve, qvars, jvars, svars>>

\* addRunnerToState saves the state it loaded with the record added
addRunnerSave(o) ==
    /\ Given(o)
    /\ ops[o].pc = "addRunnerSave"
    /\ stateFile' = addRunnerToState(stateOf(ops[o].st), ops[o].port, ops[o].pid)
    /\ ops' = [ops EXCEPT ![o] = [@ EXCEPT !.pc = "addPortLoad", !.st = <<>>]]
    /\ UNCHANGED <<cfgFile, alive, serve, qvars, jvars, svars>>

\* addPort loads the port configuration
addPortLoad(o) ==
    /\ Given(o)
    /\ ops[o].pc = "addPortLoad"
    /\ cfgFile' = afterLoadPortConfig(cfgFile)
    /\ ops' = [ops EXCEPT ![o] = [@ EXCEPT !.pc = "addPortSave", !.cf = loadPortConfig(cfgFile)]]
    /\ UNCHANGED <<stateFile, alive, serve, qvars, jvars, svars>>

\* addPort saves the list with the port appended, unless it was there; the
\* reaping goroutine is started
addPortSave(o) ==
    /\ Given(o)
    /\ ops[o].pc = "addPortSave"
    /\ cfgFile' = IF addPort(ops[o].cf, ops[o].port) = ops[o].cf THEN cfgFile
                  ELSE [exists |-> TRUE, ports |-> addPort(ops[o].cf, ops[o].port)]
    /\ ops' = [ops EXCEPT ![o] = [@ EXCEPT !.pc = "started", !.cf = <<>>]]
    /\ UNCHANGED <<stateFile, alive, serve, qvars, jvars, svars>>

\* the reaping goroutine: cmd.Wait returned, removeRunnerFromState loads
reaperLoad(o) ==
    /\ Given(o)
    /\ ops[o].pc = "started"
    /\ ops[o].pid \notin alive
    /\ ops' = [ops EXCEPT ![o] = [@ EXCEPT !.pc = "reaperSave", !.st = loadRunnerState(stateFile)]]
    /\ UNCHANGED <<stateFile, cfgFile, alive, serve, qvars, jvars, svars>>

\* the reaping goroutine: removeRunnerFromState saves; the port stays listed
reaperSave(o) ==
    /\ Given(o)
    /\ ops[o].pc = "reaperSave"
    /\ stateFile' = removeRunnerFromState(stateOf(ops[o].st), ops[o].port)
    /\ ops' = [ops EXCEPT ![o] = [@ EXCEPT !.pc = "reaped", !.st = <<>>]]
    /\ UNCHANGED <<cfgFile, alive, serve, qvars, jvars, svars>>

\* main returns after startCodeRunner: the command's process ends, and its
\* reaping goroutine with it, wherever that is
mainReturns(o) ==
    /\ Given(o)
    /\ ops[o].cmd = "spawn"
    /\ ops[o].pc \in {"started", "reaperSave", "reaped"}
    /\ ops' = [ops EXCEPT ![o] = opEnds(o, "done")]
    /\ UNCHANGED <<stateFile, cfgFile, alive, serve, qvars, jvars, svars>>

\* index of the first runner of rs on port p, 0 if there is none
findRunner(rs, p) ==
    LET hit == {i \in 1..Len(rs) : rs[i].port = p}
    IN IF hit = {} THEN 0 ELSE CHOOSE i \in hit : \A j \in hit : i <= j

\* `judge killcoderunner --port p`: killCodeRunner loads the runner state and
\* looks the port up; without a record it returns an error
killCodeRunner(o, p) ==
    /\ Fresh(o)
    /\ LET rs == loadRunnerState(stateFile)
           i == findRunner(rs, p)
       IN ops' = Append(ops,
                     IF i = 0 THEN [NoOp EXCEPT !.cmd = "kill", !.pc = "notFound", !.port = p]
                     ELSE [NoOp EXCEPT !.cmd = "kill", !.pc = "kill", !.port = p, !.pid = rs[i].pid])
    /\ UNCHANGED <<stateFile, cfgFile, alive, serve, qvars, jvars, svars>>

\* os.FindProcess and process.Kill: a process that is gone makes the command
\* return the error, with the registry as it was
processKill(o) ==
    /\ Given(o)
    /\ ops[o].cmd = "kill" /\ ops[o].pc = "kill"
    /\ IF ops[o].pid \in alive
       THEN /\ alive' = alive \ {ops[o].pid}
            /\ ops' = [ops EXCEPT ![o] = [@ EXCEPT !.pc = "removeRunnerSave",
                                                  !.st = loadRunnerState(stateFile)]]
       ELSE /\ ops' = [ops EXCEPT ![o] = opEnds(o, "killFailed")]
            /\ UNCHANGED alive
    /\ UNCHANGED <<stateFile, cfgFile, serve, qvars, jvars, svars>>

\* removeRunnerFromState saves the state it loaded without the port
removeRunnerSave(o) ==
    /\ Given(o)
    /\ ops[o].pc = "removeRunnerSave"
    /\ stateFile' = removeRunnerFromState(stateOf(ops[o].st), ops[o].port)
    /\ ops' = [ops EXCEPT ![o] = [@ EXCEPT !.pc = "removePortLoad", !.st = <<>>]]
    /\ UNCHANGED <<cfgFile, alive, serve, qvars, jvars, svars>>

\* removePort loads the port configuration
removePortLoad(o) ==
    /\ Given(o)
    /\ ops[o].pc = "removePortLoad"
    /\ cfgFile' = afterLoadPortConfig(cfgFile)
    /\ ops' = [ops EXCEPT ![o] = [@ EXCEPT !.pc = "removePortSave", !.cf = loadPortConfig(cfgFile)]]
    /\ UNCHANGED <<stateFile, alive, serve, qvars, jvars, svars>>

\* removePort saves the list without the port; killCodeRunner returns nil
removePortSave(o) ==
    /\ Given(o)
    /\ ops[o].pc = "removePortSave"
    /\ cfgFile' = [exists |-> TRUE, ports |-> removePort(ops[o].cf, ops[o].port)]
    /\ ops' = [ops EXCEPT ![o] = opEnds(o, "done")]
    /\ UNCHANGED <<stateFile, alive, serve, qvars, jvars, svars>>

\* where killAllCodeRunners goes after the runner at index i of n
afterRunner(i, n) == IF i < n THEN "killNext" ELSE "clearState"

\* `judge killallcoderunners`: killAllCodeRunners loads the runner state and
\* returns when it lists nobody
killAllCodeRunners(o) ==
    /\ Fresh(o)
    /\ LET rs == loadRunnerState(stateFile)
       IN ops' = Append(ops,
                     IF Len(rs) = 0 THEN [NoOp EXCEPT !.cmd = "killall", !.pc = "done"]
                     ELSE [NoOp EXCEPT !.cmd = "killall", !.pc = "killNext", !.st = rs, !.i = 1])
    /\ UNCHANGED <<stateFile, cfgFile, alive, serve, qvars, jvars, svars>>

\* the loop of killAllCodeRunners at runner i: a kill that fails is counted and
\* the loop goes on; after a kill removePort loads the port configuration
killNext(o) ==
    /\ Given(o)
    /\ ops[o].cmd = "killall" /\ ops[o].pc = "killNext"
    /\ LET r == ops[o].st[ops[o].i] IN
       IF r.pid \in alive
       THEN /\ alive' = alive \ {r.pid}
            /\ cfgFile' = afterLoadPortConfig(cfgFile)
            /\ ops' = [ops EXCEPT ![o] = [@ EXCEPT !.pc = "killAllPortSave",
                                                  !.cf = loadPortConfig(cfgFile)]]
       ELSE /\ ops' = [ops EXCEPT ![o] = [@ EXCEPT !.pc = afterRunner(ops[o].i, Len(ops[o].st)),
                                                  !.i = @ + 1]]
            /\ UNCHANGED <<alive, cfgFile>>
    /\ UNCHANGED <<stateFile, serve, qvars, jvars, svars>>

\* removePort of the killed runner saves; the loop goes on
killAllPortSave(o) ==
    /\ Given(o)
    /\ ops[o].pc = "killAllPortSave"
    /\ cfgFile' = [exists |-> TRUE, ports |-> removePort(ops[o].cf, ops[o].st[ops[o].i].port)]
    /\ ops' = [ops EXCEPT ![o] = [@ EXCEPT !.pc = afterRunner(ops[o].i, Len(ops[o].st)),
                                          !.i = @ + 1, !.cf = <<>>]]
    /\ UNCHANGED <<stateFile, alive, serve, qvars, jvars, svars>>

\* killAllCodeRunners saves an empty runner state and returns
clearState(o) ==
    /\ Given(o)
    /\ ops[o].pc = "clearState"
    /\ stateFile' = stateOf(<<>>)
    /\ ops' = [ops EXCEPT ![o] = opEnds(o, "done")]
    /\ UNCHANGED <<cfgFile, alive, serve, qvars, jvars, svars>>

\* a code-runner process ends by itself
runnerCrashes(pid) ==
    /\ pid \in alive
    /\ alive' = alive \ {pid}
    /\ UNCHANGED <<stateFile, cfgFile, ops, serve, qvars, jvars, svars>>

\* judge serve receives SIGINT or SIGTERM: the handler goroutine runs cleanup
signalReceived ==
    /\ serve = "running"
    /\ serve' = "cleanupConfig"
    /\ UNCHANGED <<stateFile, cfgFile, alive, ops, qvars, jvars, svars>>

\* cleanup: os.Remove(ConfigFile)
cleanupConfig ==
    /\ serve = "cleanupConfig"
    /\ cfgFile' = NoConfig
    /\ serve' = "cleanupState"
    /\ UNCHANGED <<stateFile, alive, ops, qvars, jvars, svars>>

\* cleanup: os.Remove(RunnerStateFile), then os.Exit(0)
cleanupState ==
    /\ serve = "cleanupState"
    /\ stateFile' = NoRunners
    /\ serve' = "exit0"
    /\ UNCHANGED <<cfgFile, alive, ops, qvars, jvars, svars>>

\* http.ListenAndServe returns its error to log.Fatal, which calls os.Exit(1):
\* the deferred cleanup does not run
listenFailed ==
    /\ serve = "running"
    /\ serve' = "exit1"
    /\ UNCHANGED <<stateFile, cfgFile, alive, ops, qvars, jvars, svars>>

RegistryNext ==
    \/ \E o \in OpIds, arg \in {0} \cup ExplicitPorts : mainCodeRunner(o, arg)
    \/ \E o \in OpIds, ok \in BOOLEAN : startCodeRunner(o, ok)
    \/ \E o \in OpIds : addRunnerSave(o)
    \/ \E o \in OpIds : addPortLoad(o)
    \/ \E o \in OpIds : addPortSave(o)
    \/ \E o \in OpIds : reaperLoad(o)
    \/ \E o \in OpIds : reaperSave(o)
    \/ \E o \in OpIds : mainReturns(o)
    \/ \E o \in OpIds, p \in ExplicitPorts : killCodeRunner(o, p)
    \/ \E o \in OpIds : processKill(o)
    \/ \E o \in OpIds : removeRunnerSave(o)
    \/ \E o \in OpIds : removePortLoad(o)
    \/ \E o \in OpIds : removePortSave(o)
    \/ \E o \in OpIds : killAllCodeRunners(o)
    \/ \E o \in OpIds : killNext(o)
    \/ \E o \in OpIds : killAllPortSave(o)
    \/ \E o \in OpIds : clearState(o)
    \/ \E pid \in OpIds : runnerCrashes(pid)
    \/ signalReceived
    \/ cleanupConfig
    \/ cleanupState
    \/ listenFailed

\* every command given so far has ended: its process has returned
NoneRunning ==
    \A k \in DOMAIN ops : ops[k].pc \in {"done", "startFailed", "notFound", "killFailed"}

\* commands given one at a time: the next one when the one before has ended
spawnAlone(o, arg) == NoneRunning /\ mainCodeRunner(o, arg)

killAlone(o, p) == NoneRunning /\ killCodeRunner(o, p)

killAllAlone(o) == NoneRunning /\ killAllCodeRunners(o)

SequentialNext ==
    \/ \E o \in OpIds, arg \in {0} \cup ExplicitPorts : spawnAlone(o, arg)
    \/ \E o \in OpIds, ok \in BOOLEAN : startCodeRunner(o, ok)
    \/ \E o \in OpIds : addRunnerSave(o)
    \/ \E o \in OpIds : addPortLoad(o)
    \/ \E o \in OpIds : addPortSave(o)
    \/ \E o \in OpIds : reaperLoad(o)
    \/ \E o \in OpIds : reaperSave(o)
    \/ \E o \in OpIds : mainReturns(o)
    \/ \E o \in OpIds, p \in ExplicitPorts : killAlone(o, p)
    \/ \E o \in OpIds : processKill(o)
    \/ \E o \in OpIds : removeRunnerSave(o)
    \/ \E o \in OpIds : removePortLoad(o)
    \/ \E o \in OpIds : removePortSave(o)
    \/ \E o \in OpIds : killAllAlone(o)
    \/ \E o \in OpIds : killNext(o)
    \/ \E o \in OpIds : killAllPortSave(o)
    \/ \E o \in OpIds : clearState(o)
    \/ \E pid \in OpIds : runnerCrashes(pid)

\* ------------------------------------------------------------ strings
\* the characters outputs are drawn from: a digit and the two line-ending bytes
Chars == {"3", "\r", "\n"}

\* all strings (sequences of characters) of length at most n
StrSet(n) == UNION {[1..k -> Chars] : k \in 0..n}

\* unicode.IsSpace on the characters of the model
IsSpace(c) == c \in {" ", "\t", "\n", "\r"}

RECURSIVE TrimLeft(_)
TrimLeft(s) == IF s # <<>> /\ IsSpace(Head(s)) THEN TrimLeft(Tail(s)) ELSE s

RECURSIVE TrimRight(_)
TrimRight(s) ==
    IF s # <<>> /\ IsSpace(s[Len(s)]) THEN TrimRight(SubSeq(s, 1, Len(s) - 1)) ELSE s

\* strings.TrimSpace
TrimSpace(s) == TrimRight(TrimLeft(s))

RECURSIVE ReplaceCRLF(_)
\* strings.ReplaceAll(s, "\r\n", "\n")
ReplaceCRLF(s) ==
    IF Len(s) < 2 THEN s
    ELSE IF s[1] = "\r" /\ s[2] = "\n"
         THEN <<"\n">> \o ReplaceCRLF(SubSeq(s, 3, Len(s)))
         ELSE <<s[1]>> \o ReplaceCRLF(Tail(s))

\* ------------------------------------------------------------ the judge
ExitCodes == {0, 1, 137, 139}
MemLimits == {0, 16}

\* a 64-bit value is held as hi * Limb + lo with lo < Limb, Limb = 2^22
Limb == 4194304
\* cpuCount 1.0, the default, in halves of a nanoCPU
OneCore == 2000000000
\* the in-container path runJudge passes to runTestCaseInDocker
ContainerExecutablePath == "/app/program_to_run"
\* before ContainerCreate
NoSandbox == [image |-> "none"]
\* nothing written to the container's stdin, write side open
NoStdin == [written |-> <<>>, writes |-> 0, closeWrites |-> 0, failed |-> FALSE]
\* values a request may carry in cpuCount: 0, half a nanoCPU, one nanoCPU,
\* half a core, one core
CpuCounts == {0, 1, 2, OneCore \div 2, OneCore}
\* values a request may carry in the high part of memoryLimit
MemLimitHis == {0, Limb}

\* int64(config.MemoryLimitMB) * 1024 * 1024, in MiB: the product keeps its low
\* 64 bits, which are the low 44 bits of the number of MiB
memoryBytes(hi, lo) == [hi |-> hi % Limb, lo |-> lo]

\* int64(config.CPUCount * 1e9): the conversion drops the fraction
nanoCPUs(c) == c \div 2

\* containerConfig and hostConfig of runTestCaseInDocker
containerConfig(hi, lo, c) ==
    [image |-> "config.DockerImageName",
     cmd |-> ContainerExecutablePath,
     attachStdin |-> TRUE, attachStdout |-> TRUE, attachStderr |-> TRUE,
     tty |-> FALSE, openStdin |-> TRUE, stdinOnce |-> TRUE,
     user |-> "appuser", workingDir |-> "/app",
     mount |-> [type |-> "bind", source |-> "hostExecutablePath",
                target |-> ContainerExecutablePath, readOnly |-> TRUE],
     networkMode |-> "none",
     securityOpt |-> {"no-new-privileges"},
     memory |-> memoryBytes(hi, lo),
     memorySwap |-> memoryBytes(hi, lo),
     nanoCPUs |-> nanoCPUs(c)]
Inputs == {<<>>, <<"3", "\n">>}
\* what the compiler prints: nothing, or a diagnostic
CompileOutputs == {<<>>, <<"3">>}

NoTest == [input |-> <<>>, expected |-> <<>>]
NoProg == [exits |-> FALSE, code |-> 0, out |-> <<>>]
NoRet == [result |-> "none", err |-> FALSE, at |-> "none", log |-> <<>>]
NoTres == [result |-> "none", output |-> <<>>]
NoWait == [kind |-> "none", code |-> 0]
NoResp == [code |-> 0, status |-> "none"]

\* a teardown that runs under the judging context ctx
stopCtxIsJudgeCtx(ctxState) == ctxState = "live"

\* context.WithTimeout(context.Background(), 15s): the teardown's context is
\* live when the deferred function starts, whatever happened to ctx
stopCtxLive(ctxState) == TRUE

\* a classification that blames memory for every exit code 137
classifyExitAny137(code, mem, stdout, expected) ==
    IF code # 0
    THEN IF code = 137 THEN MemoryLimit ELSE RuntimeError
    ELSE IF ReplaceCRLF(TrimSpace(stdout)) # ReplaceCRLF(TrimSpace(expected))
         THEN WrongAnswer
         ELSE Accepted

\* the classification of an exit status against the captured output
classifyExit(code, mem, stdout, expected) ==
    LET actualOutput == TrimSpace(stdout)
        expectedOutputTrimmed == TrimSpace(expected)
        actualOutputNormalized == ReplaceCRLF(actualOutput)
        expectedOutputNormalized == ReplaceCRLF(expectedOutputTrimmed)
    IN IF code # 0
       THEN IF code = 137 /\ mem > 0 THEN MemoryLimit
            ELSE IF code = 139 THEN RuntimeError
            ELSE RuntimeError
       ELSE IF actualOutputNormalized # expectedOutputNormalized
            THEN WrongAnswer
            ELSE Accepted

\* the judge variables while no Judge call is modelled
JIdle ==
    /\ jpc = "idle" /\ nTests = 0 /\ memLimit = 0 /\ idx = 0 /\ tc = NotModelled
    /\ overall = "none" /\ jret = NotModelled /\ exe = "none" /\ tcResults = <<>>
    /\ tpc = "idle" /\ cont = "none" /\ teardown = <<>> /\ judgeCtx = "live"
    /\ prog = NotModelled /\ copy = "none" /\ writer = "none" /\ stdoutBuf = <<>>
    /\ waited = NotModelled /\ tres = NotModelled
    /\ hpc = "idle" /\ tmpSrc = "none" /\ resp = NotModelled
    /\ memLimitHi = 0 /\ cpuCount = OneCore /\ sandbox = NotModelled /\ stdin = NotModelled

\* a request has reached the worker's runHandler; nTests and memLimit are what
\* its body asks for
JInit ==
    /\ jpc = "idle"
    /\ hpc = "decode" /\ tmpSrc = "none" /\ resp = NoResp
    /\ nTests \in 0..MaxTests
    /\ memLimit \in MemLimits
    /\ idx = 0 /\ tc = NoTest
    /\ overall = "none" /\ jret = NoRet /\ exe = "none" /\ tcResults = <<>>
    /\ tpc = "idle" /\ cont = "none" /\ teardown = <<>> /\ judgeCtx = "live"
    /\ prog = NoProg /\ copy = "none" /\ writer = "none" /\ stdoutBuf = <<>>
    /\ waited = NoWait /\ tres = NoTres
    /\ memLimitHi = 0 /\ cpuCount = OneCore /\ sandbox = NoSandbox /\ stdin = NoStdin

tcVars == <<tpc, cont, teardown, judgeCtx, prog, copy, writer, stdoutBuf, waited, tres>>
judgeVars == <<jpc, nTests, memLimit, idx, tc, overall, jret, exe, tcResults>>

\* ------------------------------------------------------------ runHandler
\* http.Error(w, msg, code)
httpError(code) == [code |-> code, status |-> "none"]

\* the method check and the decoding of the body
handlerDecode(how) ==
    /\ hpc = "decode"
    /\ IF how = "ok" THEN hpc' = "temp" /\ UNCHANGED resp
       ELSE /\ hpc' = "rejected"
            /\ resp' = httpError(IF how = "method" THEN 405 ELSE 400)
    /\ UNCHANGED <<tmpSrc, judgeVars, tcVars, dvars, rvars, svars>>

\* os.CreateTemp; on success the removal of the file is deferred
createTemp(ok) ==
    /\ hpc = "temp"
    /\ IF ok THEN hpc' = "write" /\ tmpSrc' = "present" /\ UNCHANGED resp
       ELSE hpc' = "tempFailed" /\ resp' = httpError(500) /\ UNCHANGED tmpSrc
    /\ UNCHANGED <<judgeVars, tcVars, dvars, rvars, svars>>

\* tmpSrc.WriteString(req.SourceCode)
writeSource(ok) ==
    /\ hpc = "write"
    /\ IF ok THEN hpc' = "parse" /\ UNCHANGED <<resp, tmpSrc>>
       ELSE hpc' = "writeFailed" /\ resp' = httpError(500) /\ tmpSrc' = "removed"
    /\ UNCHANGED <<judgeVars, tcVars, dvars, rvars, svars>>

\* the parsing of timeLimit, memoryLimit and cpuCount; then runJudge is called
parseConfig(how) ==
    /\ hpc = "parse"
    /\ IF how = "ok" THEN hpc' = "judge" /\ jpc' = "client" /\ UNCHANGED <<resp, tmpSrc>>
       ELSE /\ hpc' = "badConfig" /\ resp' = httpError(400) /\ tmpSrc' = "removed"
            /\ UNCHANGED jpc
    /\ UNCHANGED <<nTests, memLimit, idx, tc, overall, jret, exe, tcResults, tcVars, dvars, rvars, svars>>

\* runJudge returned: a hard error is answered with status 500, a result with
\* a RunResponse; the deferred os.Remove takes the source file away
handlerRespond ==
    /\ hpc = "judge"
    /\ jpc = "returned"
    /\ resp' = IF jret.err THEN httpError(500) ELSE [code |-> 200, status |-> jret.result]
    /\ tmpSrc' = "removed"
    /\ hpc' = "responded"
    /\ UNCHANGED <<judgeVars, tcVars, dvars, rvars, svars>>

\* one line or section written to the log (outputBuf)
LogEntry(tag, text) == [tag |-> tag, text |-> text]

\* a failed compilation that leaves no trace in the log
compileFailureLogSilent(out) == <<>>

\* what runJudge writes when compileProgram failed: the compilation log section
\* when the compiler printed anything, then the error, which quotes the
\* compiler output again
compileFailureLog(out) ==
    (IF out # <<>> THEN <<LogEntry("compilationLog", out)>> ELSE <<>>)
        \o <<LogEntry("compilationFailed", out), LogEntry("result", <<>>)>>

\* runJudge returns (result, log, err) from the step it is at, log being the
\* diagnostics its last step wrote; the deferred os.Remove runs when the
\* executable was produced
judgeReturns(result, err, log) ==
    /\ jpc' = "returned"
    /\ jret' = [result |-> result, err |-> err, at |-> jpc, log |-> log]
    /\ exe' = IF exe = "present" THEN "removed" ELSE exe

\* client.NewClientWithOpts
newClient(ok) ==
    /\ jpc = "client"
    /\ IF ok THEN jpc' = "build" /\ UNCHANGED <<jret, exe>>
       ELSE judgeReturns(RuntimeError, TRUE, <<LogEntry("fatalClient", <<>>)>>)
    /\ UNCHANGED <<nTests, memLimit, idx, tc, overall, tcResults, tcVars, hvars, dvars, rvars, svars>>

\* a failed image build handed up as a hard error
buildImageHardError(how) ==
    /\ jpc = "build"
    /\ IF how = "ok" THEN jpc' = "compile" /\ UNCHANGED <<jret, exe>>
       ELSE judgeReturns(RuntimeError, TRUE, <<LogEntry("buildFailed", <<>>)>>)
    /\ UNCHANGED <<nTests, memLimit, idx, tc, overall, tcResults, tcVars, hvars, dvars, rvars, svars>>

\* buildDockerImageFromString: the build context cannot be written, the build
\* request fails, the build output cannot be read to its end, or the output
\* reports an error; each is an error to runJudge
buildImage(how) ==
    /\ jpc = "build"
    /\ IF how = "ok" THEN jpc' = "compile" /\ UNCHANGED <<jret, exe>>
       ELSE judgeReturns(CompileError, FALSE, <<LogEntry("buildFailed", <<>>), LogEntry("result", <<>>)>>)
    /\ UNCHANGED <<nTests, memLimit, idx, tc, overall, tcResults, tcVars, hvars, dvars, rvars, svars>>

\* a compilation failure handed up as a hard error
compileProgramHardError(how, out) ==
    /\ jpc = "compile"
    /\ IF how = "ok" THEN jpc' = "abs" /\ exe' = "present" /\ UNCHANGED jret
       ELSE judgeReturns(CompileError, TRUE, compileFailureLog(out))
    /\ UNCHANGED <<nTests, memLimit, idx, tc, overall, tcResults, tcVars, hvars, dvars, rvars, svars>>

\* compileProgram: success leaves the executable on the host; a non-zero exit,
\* the 30s timeout and a missing artifact all return an error together with
\* out, what the compiler printed on stdout and stderr. The timeout is read
\* from ctx.Err() after cmd.Run has returned, whatever cmd.Run returned: with
\* "timeoutAfterBuild" the build had put the executable in place when the
\* deadline passed, and no removal is deferred for it
compileProgram(how, out) ==
    /\ jpc = "compile"
    /\ IF how = "ok" THEN jpc' = "abs" /\ exe' = "present" /\ UNCHANGED jret
       ELSE IF how = "timeoutAfterBuild"
            THEN /\ jpc' = "returned"
                 /\ jret' = [result |-> CompileError, err |-> FALSE, at |-> jpc,
                             log |-> compileFailureLog(out)]
                 /\ exe' = "present"
            ELSE judgeReturns(CompileError, FALSE, compileFailureLog(out))
    /\ UNCHANGED <<nTests, memLimit, idx, tc, overall, tcResults, tcVars, hvars, dvars, rvars, svars>>

\* an overall result that does not start as Accepted
absPathNoDefault(ok) ==
    /\ jpc = "abs"
    /\ IF ok THEN jpc' = "loop" /\ overall' = RuntimeError /\ UNCHANGED <<jret, exe>>
       ELSE judgeReturns(RuntimeError, TRUE, <<LogEntry("fatalAbs", <<>>)>>) /\ UNCHANGED overall
    /\ UNCHANGED <<nTests, memLimit, idx, tc, tcResults, tcVars, hvars, dvars, rvars, svars>>

\* filepath.Abs(executablePath); overallResult starts as Accepted
absPath(ok) ==
    /\ jpc = "abs"
    /\ IF ok THEN jpc' = "loop" /\ overall' = Accepted /\ UNCHANGED <<jret, exe>>
       ELSE judgeReturns(RuntimeError, TRUE, <<LogEntry("fatalAbs", <<>>)>>) /\ UNCHANGED overall
    /\ UNCHANGED <<nTests, memLimit, idx, tc, tcResults, tcVars, hvars, dvars, rvars, svars>>

\* the loop takes the next test case and calls runTestCaseInDocker
loopNext(input, expected) ==
    /\ jpc = "loop"
    /\ idx < nTests
    /\ idx' = idx + 1
    /\ tc' = [input |-> input, expected |-> expected]
    /\ jpc' = "tc"
    /\ tpc' = "create" /\ cont' = "none" /\ teardown' = <<>> /\ judgeCtx' = "live"
    /\ prog' = NoProg /\ copy' = "none" /\ writer' = "none" /\ stdoutBuf' = <<>>
    /\ waited' = NoWait /\ tres' = NoTres /\ sandbox' = NoSandbox /\ stdin' = NoStdin
    /\ UNCHANGED <<nTests, memLimit, overall, jret, exe, tcResults, hvars, dvars, rvars,
                   memLimitHi, cpuCount>>

\* the loop is over (no test case left): runJudge returns overallResult
loopEnd ==
    /\ jpc = "loop"
    /\ idx >= nTests
    /\ judgeReturns(overall, FALSE, <<LogEntry("overallResult", <<>>)>>)
    /\ UNCHANGED <<nTests, memLimit, idx, tc, overall, tcResults, tcVars, hvars, dvars, rvars, svars>>

\* a loop that records the failing result but does not break
testCaseDoneNoBreak ==
    /\ jpc = "tc"
    /\ tpc = "ret"
    /\ tcResults' = Append(tcResults, tres.result)
    /\ tpc' = "idle"
    /\ jpc' = "loop"
    /\ overall' = IF tres.result # Accepted THEN tres.result ELSE overall
    /\ UNCHANGED <<jret, exe>>
    /\ UNCHANGED <<nTests, memLimit, idx, tc, cont, teardown, judgeCtx, prog, copy,
                   writer, stdoutBuf, waited, tres, hvars, dvars, rvars, svars>>

\* runTestCaseInDocker returned to the loop: a result other than Accepted
\* becomes the overall result and ends the loop
testCaseDone ==
    /\ jpc = "tc"
    /\ tpc = "ret"
    /\ tcResults' = Append(tcResults, tres.result)
    /\ tpc' = "idle"
    /\ IF tres.result # Accepted
       THEN /\ overall' = tres.result
            /\ judgeReturns(tres.result, FALSE, <<LogEntry("overallResult", <<>>)>>)
       ELSE /\ jpc' = "loop"
            /\ UNCHANGED <<overall, jret, exe>>
    /\ UNCHANGED <<nTests, memLimit, idx, tc, cont, teardown, judgeCtx, prog, copy,
                   writer, stdoutBuf, waited, tres, hvars, dvars, rvars, svars>>

\* ------------------------------------------------- runTestCaseInDocker
\* a return statement: the result is fixed, then the deferred calls run; the
\* teardown was deferred only once the container had been created
tcReturns(result, output) ==
    /\ tres' = [result |-> result, output |-> output]
    /\ tpc' = IF cont = "none" THEN "ret" ELSE "stop"

\* a ContainerCreate whose failure does not end the test case
containerCreateGoesOn(ok) ==
    /\ tpc = "create"
    /\ tpc' = "attach"
    /\ cont' = IF ok THEN "created" ELSE cont
    /\ sandbox' = IF ok THEN containerConfig(memLimitHi, memLimit, cpuCount) ELSE sandbox
    /\ UNCHANGED <<tres, teardown, judgeCtx, prog, copy, writer, stdoutBuf, waited, judgeVars, hvars,
                   dvars, rvars, memLimitHi, cpuCount, stdin>>

\* apiClient.ContainerCreate
containerCreate(ok) ==
    /\ tpc = "create"
    /\ IF ok THEN /\ cont' = "created" /\ tpc' = "attach" /\ UNCHANGED tres
                  /\ sandbox' = containerConfig(memLimitHi, memLimit, cpuCount)
       ELSE tcReturns(RuntimeError, <<>>) /\ UNCHANGED <<cont, sandbox>>
    /\ UNCHANGED <<teardown, judgeCtx, prog, copy, writer, stdoutBuf, waited, judgeVars, hvars, dvars, rvars,
                   memLimitHi, cpuCount, stdin>>

\* apiClient.ContainerAttach
containerAttach(ok) ==
    /\ tpc = "attach"
    /\ IF ok THEN tpc' = "start" /\ UNCHANGED tres
       ELSE tcReturns(RuntimeError, <<>>)
    /\ UNCHANGED <<cont, teardown, judgeCtx, prog, copy, writer, stdoutBuf, waited, judgeVars, hvars, dvars, rvars, svars>>

\* apiClient.ContainerStart succeeded: the program runs, the stdin and output
\* goroutines are started and the function goes on to ContainerWait
containerStart(exits, code, out) ==
    /\ tpc = "start"
    /\ cont' = "running"
    /\ prog' = [exits |-> exits, code |-> code, out |-> out]
    /\ writer' = "running"
    /\ copy' = "running"
    /\ tpc' = "wait"
    /\ UNCHANGED <<teardown, judgeCtx, stdoutBuf, waited, tres, judgeVars, hvars, dvars, rvars, svars>>

\* apiClient.ContainerStart failed: the judging deadline had passed (TimeLimit),
\* or the start timed out, the container was gone, or another error
containerStartFailed(why) ==
    /\ tpc = "start"
    /\ judgeCtx' = IF why = "ctxDeadline" THEN "expired" ELSE judgeCtx
    /\ tcReturns(IF why = "ctxDeadline" THEN TimeLimit ELSE RuntimeError, <<>>)
    /\ UNCHANGED <<cont, teardown, prog, copy, writer, stdoutBuf, waited, judgeVars, hvars, dvars, rvars, svars>>

\* the program in the container exits by itself
programExits ==
    /\ cont = "running"
    /\ prog.exits
    /\ cont' = "exited"
    /\ UNCHANGED <<tpc, teardown, judgeCtx, prog, copy, writer, stdoutBuf, waited, tres,
                   judgeVars, hvars, dvars, rvars, svars>>

\* an input that always gets a newline appended
inputToWriteAlways(input) == Append(input, "\n")

\* inputToWrite of the stdin goroutine: the input, with "\n" appended unless
\* strings.HasSuffix(input, "\n")
inputToWrite(input) ==
    IF Len(input) > 0 /\ input[Len(input)] = "\n" THEN input ELSE Append(input, "\n")

\* the stdin goroutine: io.WriteString wrote inputToWrite, then the deferred
\* function called hijackedResp.CloseWrite and closed inputErrChan
stdinWritten ==
    /\ writer = "running"
    /\ writer' = "done"
    /\ stdin' = [written |-> inputToWrite(tc.input), writes |-> stdin.writes + 1,
                 closeWrites |-> stdin.closeWrites + 1, failed |-> FALSE]
    /\ UNCHANGED <<tpc, cont, teardown, judgeCtx, prog, copy, stdoutBuf, waited, tres,
                   judgeVars, hvars, dvars, rvars, memLimitHi, cpuCount, sandbox>>

\* the stdin goroutine: io.WriteString returned an error after n characters;
\* the error is logged or sent on inputErrChan, and the deferred function
\* calls hijackedResp.CloseWrite all the same
stdinWriteFailed(n) ==
    /\ writer = "running"
    /\ n < Len(inputToWrite(tc.input))
    /\ writer' = "done"
    /\ stdin' = [written |-> SubSeq(inputToWrite(tc.input), 1, n), writes |-> stdin.writes + 1,
                 closeWrites |-> stdin.closeWrites + 1, failed |-> TRUE]
    /\ UNCHANGED <<tpc, cont, teardown, judgeCtx, prog, copy, stdoutBuf, waited, tres,
                   judgeVars, hvars, dvars, rvars, memLimitHi, cpuCount, sandbox>>

\* the output goroutine: StdCopy moved the program's output into stdoutBuf
copyData ==
    /\ copy = "running"
    /\ cont \in {"running", "exited"}
    /\ stdoutBuf # prog.out
    /\ stdoutBuf' = prog.out
    /\ UNCHANGED <<tpc, cont, teardown, judgeCtx, prog, copy, writer, waited, tres,
                   judgeVars, hvars, dvars, rvars, svars>>

\* the output goroutine: StdCopy returned (the stream ended because the
\* container is not running any more, or the connection was closed) and its
\* error was sent on outputErrChan
copyFinished ==
    /\ copy = "running"
    /\ stdoutBuf = prog.out
    /\ \/ cont \in {"exited", "removed"}
       \/ tpc \in {"remove", "ret", "idle"}
    /\ copy' = "done"
    /\ UNCHANGED <<tpc, cont, teardown, judgeCtx, prog, writer, stdoutBuf, waited, tres,
                   judgeVars, hvars, dvars, rvars, svars>>

\* select: statusCh delivered the exit status
waitStatus ==
    /\ tpc = "wait"
    /\ cont = "exited"
    /\ waited' = [kind |-> "status", code |-> prog.code]
    /\ tpc' = "drainStatus"
    /\ UNCHANGED <<cont, teardown, judgeCtx, prog, copy, writer, stdoutBuf, tres,
                   judgeVars, hvars, dvars, rvars, svars>>

\* select: waitErrCh delivered an error: the deadline of waitCtx, or another one
waitError(why) ==
    /\ tpc = "wait"
    /\ waited' = [kind |-> why, code |-> 0]
    /\ tpc' = "drain"
    /\ UNCHANGED <<cont, teardown, judgeCtx, prog, copy, writer, stdoutBuf, tres,
                   judgeVars, hvars, dvars, rvars, svars>>

\* select: waitErrCh delivered nil: nothing is assigned in that case, so
\* finalResult and finalOutput are returned as they were initialised
waitNil ==
    /\ tpc = "wait"
    /\ waited' = [kind |-> "nil", code |-> 0]
    /\ tcReturns(Accepted, <<>>)
    /\ UNCHANGED <<cont, teardown, judgeCtx, prog, copy, writer, stdoutBuf,
                   judgeVars, hvars, dvars, rvars, svars>>

\* a timeout branch that still classifies the exit status of a program that
\* has exited in the meantime
drainAfterErrorClassifies ==
    /\ tpc = "drain"
    /\ copy = "done"
    /\ tcReturns(IF waited.kind # "deadline" THEN RuntimeError
                 ELSE IF cont = "exited"
                      THEN classifyExit(prog.code, memLimit, stdoutBuf, tc.expected)
                      ELSE TimeLimit,
                 TrimSpace(stdoutBuf))
    /\ UNCHANGED <<cont, teardown, judgeCtx, prog, copy, writer, stdoutBuf, waited,
                   judgeVars, hvars, dvars, rvars, svars>>

\* after a wait error: `<-outputErrChan` returns once the output goroutine has
\* sent; the result is TimeLimit for the deadline, RuntimeError otherwise
drainAfterError ==
    /\ tpc = "drain"
    /\ copy = "done"
    /\ tcReturns(IF waited.kind = "deadline" THEN TimeLimit ELSE RuntimeError, TrimSpace(stdoutBuf))
    /\ UNCHANGED <<cont, teardown, judgeCtx, prog, copy, writer, stdoutBuf, waited,
                   judgeVars, hvars, dvars, rvars, svars>>

\* after an exit status: the output goroutine has sent, or the 5s wait for it
\* ran out; then the status is classified against whatever stdoutBuf holds
drainAfterStatus(timedOut) ==
    /\ tpc = "drainStatus"
    /\ IF timedOut THEN copy # "done" ELSE copy = "done"
    /\ tcReturns(classifyExit(waited.code, memLimit, stdoutBuf, tc.expected), TrimSpace(stdoutBuf))
    /\ UNCHANGED <<cont, teardown, judgeCtx, prog, copy, writer, stdoutBuf, waited,
                   judgeVars, hvars, dvars, rvars, svars>>

\* deferred: hijackedResp.Close, then ContainerStop under stopCtx; a failed
\* stop is only logged
deferredStop(ok) ==
    /\ tpc = "stop"
    /\ teardown' = IF stopCtxLive(judgeCtx) THEN Append(teardown, "stop") ELSE teardown
    /\ cont' = IF ok /\ stopCtxLive(judgeCtx) /\ cont = "running" THEN "exited" ELSE cont
    /\ tpc' = "remove"
    /\ UNCHANGED <<judgeCtx, prog, copy, writer, stdoutBuf, waited, tres, judgeVars, hvars, dvars, rvars, svars>>

\* deferred: ContainerRemove with Force under stopCtx; a failure is only logged
deferredRemove(ok) ==
    /\ tpc = "remove"
    /\ teardown' = IF stopCtxLive(judgeCtx) THEN Append(teardown, "remove") ELSE teardown
    /\ cont' = IF ok /\ stopCtxLive(judgeCtx) THEN "removed" ELSE cont
    /\ tpc' = "ret"
    /\ UNCHANGED <<judgeCtx, prog, copy, writer, stdoutBuf, waited, tres, judgeVars, hvars, dvars, rvars, svars>>

JNext ==
    \/ \E how \in {"ok", "method", "body"} : handlerDecode(how)
    \/ \E ok \in BOOLEAN : createTemp(ok)
    \/ \E ok \in BOOLEAN : writeSource(ok)
    \/ \E how \in {"ok", "timeLimit", "memoryLimit", "cpuCount"} : parseConfig(how)
    \/ handlerRespond
    \/ \E ok \in BOOLEAN : newClient(ok)
    \/ \E how \in {"ok", "tarErr", "requestErr", "scanErr", "buildErr"} : buildImage(how)
    \/ \E how \in {"ok", "exitStatus", "timeout", "timeoutAfterBuild", "noArtifact"},
          out \in CompileOutputs :
           compileProgram(how, IF how = "ok" THEN <<>> ELSE out)
    \/ \E ok \in BOOLEAN : absPath(ok)
    \/ \E input \in Inputs, expected \in StrSet(JudgeLen) : loopNext(input, expected)
    \/ loopEnd
    \/ testCaseDone
    \/ \E ok \in BOOLEAN : containerCreate(ok)
    \/ \E ok \in BOOLEAN : containerAttach(ok)
    \/ \E exits \in BOOLEAN, code \in ExitCodes, out \in StrSet(JudgeLen) :
           containerStart(exits, IF exits THEN code ELSE 0, out)
    \/ \E why \in {"ctxDeadline", "startTimeout", "notFound", "other"} : containerStartFailed(why)
    \/ programExits
    \/ stdinWritten
    \/ copyData
    \/ copyFinished
    \/ waitStatus
    \/ \E why \in {"deadline", "error"} : waitError(why)
    \/ drainAfterError
    \/ \E timedOut \in BOOLEAN : drainAfterStatus(timedOut)
    \/ \E ok \in BOOLEAN : deferredStop(ok)
    \/ \E ok \in BOOLEAN : deferredRemove(ok)

vars == <<dvars, jvars, rvars, svars>>

Init == DInit /\ JIdle
Next == DNext
Spec == Init /\ [][Next]_vars

SpecLock == Init /\ [][LockNext]_vars

SpecSingle == Init /\ [][SingleNext]_vars

\* the dispatcher with requests that submitHandler turns away, while runners
\* are being added to the registry
SubmitNext ==
    \/ \E p \in RunnerPorts : runnerStarted(p)
    \/ \E s \in SubIds : submitLoad(s)
    \/ \E s \in SubIds : submitHandler(s)
    \/ \E s \in SubIds : processSubmission(s)
    \/ \E s \in SubIds, code \in {405, 400} : submitRejected(s, code)

SpecSubmit == Init /\ [][SubmitNext]_vars

\* a Judge call on a worker, with the dispatcher's variables at rest
JudgeInit == DIdle /\ JInit

SpecJudge == JudgeInit /\ [][JNext]_vars

\* the goroutines of a Judge call keep running, timers fire, and calls to the
\* container runtime return; a program runs as long as it likes
SpecJudgeLive == SpecJudge /\ WF_vars(JNext)

\* runTestCaseInDocker at the point where the container has exited with
\* status 0 and the output goroutine has delivered all of stdout; the captured
\* and the expected output are any strings
CompareInit ==
    /\ DIdle
    /\ jpc = "tc" /\ nTests = 1 /\ memLimit = 0 /\ idx = 1
    /\ \E e \in StrSet(ExpectedLen) : tc = [input |-> <<>>, expected |-> e]
    /\ overall = Accepted /\ jret = NoRet /\ exe = "present" /\ tcResults = <<>>
    /\ tpc = "drainStatus" /\ cont = "exited" /\ teardown = <<>> /\ judgeCtx = "live"
    /\ stdoutBuf \in StrSet(ActualLen)
    /\ prog = [exits |-> TRUE, code |-> 0, out |-> stdoutBuf]
    /\ copy = "done" /\ writer = "done"
    /\ waited = [kind |-> "status", code |-> 0] /\ tres = NoTres
    /\ hpc = "judge" /\ tmpSrc = "present" /\ resp = NoResp
    /\ memLimitHi = 0 /\ cpuCount = OneCore
    /\ sandbox = containerConfig(memLimitHi, memLimit, cpuCount)
    /\ stdin = [written |-> inputToWrite(tc.input), writes |-> 1, closeWrites |-> 1, failed |-> FALSE]

\* runTestCaseInDocker is entered for a test case of a request whose
\* memoryLimit and cpuCount are any of the values above
SandboxInit ==
    /\ DIdle
    /\ jpc = "tc" /\ nTests = 1 /\ idx = 1
    /\ memLimit \in MemLimits /\ memLimitHi \in MemLimitHis /\ cpuCount \in CpuCounts
    /\ \E input \in Inputs, e \in StrSet(JudgeLen) : tc = [input |-> input, expected |-> e]
    /\ overall = Accepted /\ jret = NoRet /\ exe = "present" /\ tcResults = <<>>
    /\ tpc = "create" /\ cont = "none" /\ teardown = <<>> /\ judgeCtx = "live"
    /\ prog = NoProg /\ copy = "none" /\ writer = "none" /\ stdoutBuf = <<>>
    /\ waited = NoWait /\ tres = NoTres
    /\ hpc = "judge" /\ tmpSrc = "present" /\ resp = NoResp
    /\ sandbox = NoSandbox /\ stdin = NoStdin

SandboxNext ==
    \/ \E ok \in BOOLEAN : containerCreate(ok)
    \/ \E ok \in BOOLEAN : containerAttach(ok)

SpecSandbox == SandboxInit /\ [][SandboxNext]_vars

CompareNext == drainAfterStatus(FALSE)

\* runTestCaseInDocker is about to start the container it created for the
\* only test case t of a submission
atContainerStart(t) ==
    /\ DIdle
    /\ jpc = "tc" /\ nTests = 1 /\ idx = 1 /\ memLimit = 0
    /\ tc = t
    /\ overall = Accepted /\ jret = NoRet /\ exe = "present" /\ tcResults = <<>>
    /\ tpc = "start" /\ cont = "created" /\ teardown = <<>> /\ judgeCtx = "live"
    /\ prog = NoProg /\ copy = "none" /\ writer = "none" /\ stdoutBuf = <<>>
    /\ waited = NoWait /\ tres = NoTres
    /\ hpc = "judge" /\ tmpSrc = "present" /\ resp = NoResp
    /\ memLimitHi = 0 /\ cpuCount = OneCore
    /\ sandbox = containerConfig(memLimitHi, memLimit, cpuCount) /\ stdin = NoStdin

\* the test case's input is any string
StdinInit ==
    \E input \in StrSet(InputLen) : atContainerStart([input |-> input, expected |-> <<>>])

StdinNext ==
    \/ \E exits \in BOOLEAN, out \in StrSet(JudgeLen) : containerStart(exits, 0, out)
    \/ programExits
    \/ stdinWritten
    \/ \E n \in 0..InputLen : stdinWriteFailed(n)
    \/ copyData
    \/ copyFinished

SpecStdin == StdinInit /\ [][StdinNext]_vars

\* the expected output is any string
WaitInit ==
    \E expected \in StrSet(JudgeLen) : atContainerStart([input |-> <<>>, expected |-> expected])

\* from ContainerStart to the return of runTestCaseInDocker, with every case
\* of the select on the wait's two channels
WaitNext ==
    \/ \E exits \in BOOLEAN, code \in ExitCodes, out \in StrSet(JudgeLen) :
           containerStart(exits, IF exits THEN code ELSE 0, out)
    \/ programExits
    \/ stdinWritten
    \/ copyData
    \/ copyFinished
    \/ waitStatus
    \/ \E why \in {"deadline", "error"} : waitError(why)
    \/ waitNil
    \/ drainAfterError
    \/ \E timedOut \in BOOLEAN : drainAfterStatus(timedOut)
    \/ \E ok \in BOOLEAN : deferredStop(ok)
    \/ \E ok \in BOOLEAN : deferredRemove(ok)

SpecWait == WaitInit /\ [][WaitNext]_vars

SpecCompare == CompareInit /\ [][CompareNext]_vars

\* the registry commands and the serve process, from a host with no registry
\* files and no code-runner
SpecRegistry == Init /\ [][RegistryNext]_vars

SpecSequential == Init /\ [][SequentialNext]_vars

\* a command that has been given runs to its end and the serve process
\* finishes a cleanup it began; nobody is bound to give a command, to crash or
\* to send a signal
RegistrySteps ==
    \E o \in OpIds :
        \/ \E ok \in BOOLEAN : startCodeRunner(o, ok)
        \/ addRunnerSave(o) \/ addPortLoad(o) \/ addPortSave(o)
        \/ reaperLoad(o) \/ reaperSave(o) \/ mainReturns(o)
        \/ processKill(o) \/ removeRunnerSave(o) \/ removePortLoad(o) \/ removePortSave(o)
        \/ killNext(o) \/ killAllPortSave(o) \/ clearState(o)

SpecRegistryLive == SpecRegistry /\ WF_vars(RegistrySteps) /\ WF_vars(cleanupConfig \/ cleanupState)

\* goroutines and handlers that have started keep running; requests to submit
\* and changes of the registry come from outside and are not forced
SpecLive ==
    /\ Spec
    /\ WF_vars(\E s \in SubIds : submitHandler(s))
    /\ WF_vars(\E s \in SubIds : processSubmission(s))

\* ------------------------------------------------------------ claims
InFlightOn(p) == {s \in SubIds : pc[s] \in {"send", "report", "posting"} /\ port[s] = p}

AnyRunning == \E i \in 1..Len(loadRunnerState(stateFile)) : loadRunnerState(stateFile)[i].state = "running"

\* C1: at most one submission is in flight (dispatched and not yet finished)
\* on any worker port
C1_OneInFlightPerWorker == \A p \in RunnerPorts : Cardinality(InFlightOn(p)) <= 1

\* C2: a queued submission is eventually dispatched once a worker is running
C2_QueuedEventuallyDispatched ==
    \A s \in SubIds : (pc[s] = "queued" /\ AnyRunning) ~> (pc[s] # "queued")

\* C3: the queue is served first-in first-out: a submission enters the queue
\* at its tail, and the submission runnerDoneHandler dispatches is the one at
\* the head, so a submission enqueued earlier is dispatched no later
C3_FifoDispatch ==
    [][/\ started' # started =>
             \A b \in SubIds : (pc[b] = "queued" /\ started'[b] # started[b])
                                    => (queue[1] = b /\ queue' = Tail(queue))
       /\ \A b \in SubIds :
             (pc'[b] = "queued" /\ pc[b] # "queued") => queue' = Append(queue, b)]_vars

C3_Witness == popped >= 2 /\ queue = <<>>

\* C4: every submission whose processing ended was reported exactly once
C4_ExactlyOneReport ==
    \A s \in SubIds : reports[s] <= 1 /\ (pc[s] = "done" => reports[s] = 1)

\* C5: a processSubmission that has ended called runnerDoneHandler exactly
\* once, and none calls it more than once
C5_DoneExactlyOnce ==
    \A s \in SubIds : doneCalls[s] <= 1 /\ (pc[s] = "done" => doneCalls[s] = 1)

C5_Witness ==
    /\ "undelivered" \in ended
    /\ \E s \in SubIds : pc[s] = "done" /\ reports[s] = 1 /\ doneCalls[s] = 1

\* a container was created for the current test case
Created == cont # "none"

\* the comparison form of an output: trimmed, with \r\n turned into \n
Normalized(x) == ReplaceCRLF(TrimSpace(x))

\* runJudge returned from a step after the image build and the compilation
CompiledOk == jret.at \in {"abs", "loop", "tc"}

AllAccepted == \A i \in 1..nTests : i <= Len(tcResults) /\ tcResults[i] = Accepted

C7_TestCaseTerminates == (tpc = "create") ~> (tpc = "ret")

\* C8: no test case runs after one that was not Accepted, the test cases run
\* in order, all of them run when none fails, and the verdict is the result of
\* the first one that was not Accepted
C8_FailFast ==
    /\ \A i \in 1..(Len(tcResults) - 1) : tcResults[i] = Accepted
    /\ idx \in {Len(tcResults), Len(tcResults) + 1}
    /\ (jpc = "returned" /\ tcResults # <<>> /\ tcResults[Len(tcResults)] # Accepted)
          => (jret.result = tcResults[Len(tcResults)] /\ idx = Len(tcResults))
    /\ (jpc = "returned" /\ ~jret.err /\ CompiledOk
            /\ \A i \in 1..Len(tcResults) : tcResults[i] = Accepted)
          => Len(tcResults) = nTests

C8_Witness ==
    /\ jpc = "returned"
    /\ nTests = 2
    /\ Len(tcResults) = 1
    /\ tcResults[1] = WrongAnswer
    /\ jret.result = WrongAnswer

\* C9 as stated: build and compilation succeeded and every test case is
\* Accepted (or there is none): the verdict is Accepted
C9_AcceptedWhenAllPass ==
    (jpc = "returned" /\ CompiledOk /\ AllAccepted)
        => (jret.result = Accepted /\ ~jret.err)

\* C9 amended: also no hard error is returned (the absolute path of the
\* executable was resolved); and every return carries exactly one Result
C9_AcceptedWhenAllPassNoHardError ==
    /\ (jpc = "returned" /\ CompiledOk /\ ~jret.err /\ AllAccepted)
          => jret.result = Accepted
    /\ (jpc = "returned") <=> (jret.result \in Result)

C9_Witness ==
    /\ jpc = "returned" /\ ~jret.err
    /\ nTests = 2 /\ AllAccepted
    /\ jret.result = Accepted

\* C10: for an exit status delivered by the wait, the verdict is MemoryLimit
\* iff the code is 137 under a memory limit, RuntimeError iff the code is
\* another nonzero one, and for code 0 Accepted iff the normalized outputs are
\* equal, WrongAnswer otherwise
C10_ExitCodeVerdict ==
    (tpc \in {"stop", "remove", "ret"} /\ waited.kind = "status") =>
        LET c == waited.code
            v == tres.result
            oom == c = 137 /\ memLimit > 0
        IN /\ (v = MemoryLimit) <=> oom
           /\ (v = RuntimeError) <=> (c # 0 /\ ~oom)
           /\ (v = Accepted) <=> (c = 0 /\ Normalized(tres.output) = Normalized(tc.expected))
           /\ (v = WrongAnswer) <=> (c = 0 /\ Normalized(tres.output) # Normalized(tc.expected))

C10_Witness ==
    /\ tpc = "ret" /\ waited.kind = "status"
    /\ waited.code = 137 /\ memLimit = 0
    /\ tres.result = RuntimeError

\* C11: when the wait ended on the deadline of the time limit, the test case's
\* result is TimeLimit whatever the program's exit code and output are, and
\* the output returned is the stdout captured so far, trimmed, uncompared
C11_TimeoutTakesPriority ==
    (tpc \in {"stop", "remove", "ret"} /\ waited.kind = "deadline") =>
        /\ tres.result = TimeLimit
        /\ tres.output = TrimSpace(stdoutBuf)

C11_Witness ==
    /\ tpc = "ret" /\ waited.kind = "deadline"
    /\ prog.exits /\ prog.code = 0 /\ prog.out # <<>>
    /\ Normalized(stdoutBuf) = Normalized(tc.expected)
    /\ tres.result = TimeLimit
    /\ tres.output = TrimSpace(stdoutBuf)

\* C12: the comparison is made on normalized outputs: a captured output that
\* differs from the expected one only in surrounding whitespace or in \r\n
\* written for \n is Accepted, and normalizing a normalized output changes
\* nothing
C12_NormalizedComparison ==
    (tpc = "stop" /\ waited.kind = "status" /\ waited.code = 0) =>
        /\ (tc.expected \in {TrimSpace(stdoutBuf), ReplaceCRLF(stdoutBuf), Normalized(stdoutBuf)}
               => tres.result = Accepted)
        /\ (stdoutBuf \in {TrimSpace(tc.expected), ReplaceCRLF(tc.expected), Normalized(tc.expected)}
               => tres.result = Accepted)
        /\ Normalized(Normalized(stdoutBuf)) = Normalized(stdoutBuf)

\* C13: runJudge returns a hard error only where the container-runtime client
\* cannot be created or the executable's path cannot be resolved; a failed
\* image build, a failed compilation and every result of running a test case
\* (runtime crash, wrong answer, time or memory limit) come back as a Result
\* with a nil error
C13_HardErrorOnlyForInfrastructure ==
    (jpc = "returned") =>
        /\ jret.err => jret.at \in {"client", "abs"}
        /\ jret.at \in {"build", "compile", "tc", "loop"} => (~jret.err /\ jret.result \in Result)
        /\ jret.result \in {CompileError, WrongAnswer, TimeLimit, MemoryLimit} => ~jret.err
        /\ tcResults # <<>> => ~jret.err

C13_Witness ==
    /\ jpc = "returned" /\ jret.at = "tc"
    /\ waited.kind = "status" /\ waited.code = 139
    /\ jret.result = RuntimeError /\ ~jret.err

\* C14: when compilation fails (non-zero exit, timeout or missing artifact)
\* runJudge returns CompileError, the log holds what the compiler printed, no
\* test case was run and no container was created
C14_CompileFailure ==
    (jpc = "returned" /\ jret.at = "compile") =>
        /\ jret.result = CompileError
        /\ \E i \in 1..Len(jret.log) :
              /\ jret.log[i].tag = "compilationFailed"
              /\ jret.log[i].text # <<>> =>
                    \E j \in 1..Len(jret.log) : jret.log[j] = LogEntry("compilationLog", jret.log[i].text)
        /\ idx = 0 /\ tcResults = <<>>
        /\ tpc = "idle" /\ cont = "none" /\ teardown = <<>>

C14_Witness ==
    /\ jpc = "returned" /\ jret.at = "compile"
    /\ nTests > 0
    /\ jret.result = CompileError
    /\ \E i \in 1..Len(jret.log) : jret.log[i] = LogEntry("compilationLog", <<"3">>)
    /\ cont = "none" /\ tcResults = <<>>

\* C15: when building the execution image fails, runJudge returns
\* CompileError with a nil error, and neither the compilation nor any test
\* case has run
C15_BuildFailure ==
    (jpc = "returned" /\ jret.at = "build") =>
        /\ jret.result = CompileError /\ ~jret.err
        /\ exe = "none"
        /\ \A i \in 1..Len(jret.log) : jret.log[i].tag \notin {"compilationLog", "compilationFailed"}
        /\ idx = 0 /\ tcResults = <<>>
        /\ tpc = "idle" /\ cont = "none"

C15_Witness ==
    /\ jpc = "returned" /\ jret.at = "build"
    /\ nTests > 0
    /\ jret.result = CompileError /\ ~jret.err
    /\ exe = "none" /\ tcResults = <<>>

\* an infrastructure failure met while judging: the temporary source file
\* cannot be created or written, the container-runtime client cannot be
\* created, or a container cannot be created, attached to or started
InfrastructureFailure ==
    \/ hpc \in {"tempFailed", "writeFailed"}
    \/ /\ hpc = "responded"
       /\ \/ jret.at = "client"
          \/ jret.at = "tc" /\ waited.kind = "none" /\ tres.result = RuntimeError

\* C16: after an infrastructure failure the worker answers with the verdict
\* RuntimeError, never with a bare error status
C16_InfrastructureFailureIsVerdict ==
    InfrastructureFailure => (resp.code = 200 /\ resp.status = RuntimeError)

\* the handler has returned, on any path
HandlerReturned == hpc \in {"rejected", "tempFailed", "writeFailed", "badConfig", "responded"}

\* C17: once the handling of a submission has ended, neither the temporary
\* source file nor a compiled executable is left on the host
C17_NoArtifactLeft ==
    HandlerReturned => (tmpSrc # "present" /\ exe # "present")

\* the runner on port p is recorded as running in the runner state
RegisteredRunning(f, p) ==
    \E i \in 1..Len(loadRunnerState(f)) :
        loadRunnerState(f)[i].port = p /\ loadRunnerState(f)[i].state = "running"

\* the ports of registered running workers with no submission in flight
IdleWorkers == {p \in RunnerPorts : RegisteredRunning(stateFile, p) /\ InFlightOn(p) = {}}

InQueue(q, s) == \E i \in 1..Len(q) : q[i] = s

\* C18: when submitHandler decides, the submission is dispatched iff some
\* running worker has nothing in flight, and then to such a worker; otherwise
\* it is appended to the queue; it is never dispatched to a busy worker
C18_SubmitDispatchesIffIdle ==
    [][\A s \in SubIds : (pc[s] = "submit" /\ pc'[s] # "submit") =>
          IF IdleWorkers # {}
          THEN pc'[s] = "send" /\ port'[s] \in IdleWorkers /\ queue' = queue
          ELSE pc'[s] = "queued" /\ queue' = Append(queue, s)]_vars

\* C19: a submission is dispatched at most once; once dispatched it is never
\* in the queue again; the queue changes only by taking in a submission that
\* was neither dispatched nor queued, or by giving up its head to a dispatch
C19_ConsumedOnce ==
    [][/\ \A s \in SubIds : started'[s] <= 1
       /\ \A i \in 1..Len(queue') : started[queue'[i]] # 1
       /\ queue' # queue =>
             \/ \E s \in SubIds : /\ queue' = Append(queue, s)
                                  /\ started[s] = 0 /\ ~InQueue(queue, s)
             \/ /\ queue # <<>> /\ queue' = Tail(queue)
                /\ started[Head(queue)] = 0 /\ started'[Head(queue)] = 1]_vars

C19_Witness ==
    /\ popped >= 1
    /\ \E s, t \in SubIds : pc[s] = "done" /\ started[s] = 1 /\ pc[t] = "queued" /\ started[t] = 0

\* C20: a submission is in flight only on a worker that the registry records
\* as running
C20_InFlightOnlyOnRunning ==
    \A s \in SubIds :
        pc[s] \in {"send", "report", "posting"} => RegisteredRunning(stateFile, port[s])

\* ------------------------------------------------------------ registry claims
\* the ports the registry holds: the port list and the runner records
RegisteredPorts ==
    {cfgFile.ports[i] : i \in 1..Len(cfgFile.ports)}
        \cup {stateFile.runners[i].port : i \in 1..Len(stateFile.runners)}

\* C21: a spawn with no port given takes the highest registered port + 1,
\* which is not a port the registry already holds; a spawn with a port given
\* takes exactly that port
C21_NextFreePort ==
    [][\A o \in OpIds : (Fresh(o) /\ Len(ops') = o /\ ops'[o].cmd = "spawn") =>
          \/ ops'[o].port \in ExplicitPorts /\ mainCodeRunner(o, ops'[o].port)
          \/ /\ mainCodeRunner(o, 0)
             /\ ops'[o].port \notin RegisteredPorts
             /\ \A q \in RegisteredPorts : ops'[o].port > q
             /\ RegisteredPorts # {} => ops'[o].port - 1 \in RegisteredPorts]_vars

\* the runner state lists a running worker whose process is pid
ListedRunning(pid) ==
    \E i \in 1..Len(stateFile.runners) :
        stateFile.runners[i].pid = pid /\ stateFile.runners[i].state = "running"

\* C22: a worker that is recorded as running and whose process has exited is
\* eventually no longer listed as running
C22_ExitedWorkerLeavesRegistry ==
    \A pid \in OpIds : (ListedRunning(pid) /\ pid \notin alive) ~> ~ListedRunning(pid)

\* the runner state holds a record for port p
HasRecord(p) == \E i \in 1..Len(stateFile.runners) : stateFile.runners[i].port = p

\* C23: a kill of a registered port ends with the port out of the runner
\* records and out of the port list; a kill of a port with no record returns
\* an error and changes nothing
C23_KillRemovesWorker ==
    [][\A o \in OpIds :
          /\ (Fresh(o) /\ Len(ops') = o /\ ops'[o].cmd = "kill") =>
                /\ ops'[o].pc = "notFound" <=> ~HasRecord(ops'[o].port)
                /\ stateFile' = stateFile /\ cfgFile' = cfgFile /\ alive' = alive
          /\ (o \in DOMAIN ops /\ ops[o].cmd = "kill" /\ ops[o].pc # ops'[o].pc
                /\ ops'[o].pc \in {"done", "killFailed"}) =>
                /\ ops'[o].pc = "done"
                /\ ops'[o].port \notin RegisteredPorts']_vars

\* C24: when killallcoderunners returns, no runner record is left and no port
\* of a worker that was registered when it began is left in the port list,
\* the workers whose process could not be killed included
C24_KillAllClearsRegistry ==
    [][\A o \in DOMAIN ops :
          (ops[o].cmd = "killall" /\ ops[o].pc = "clearState" /\ ops'[o].pc = "done") =>
              /\ stateFile'.runners = <<>>
              /\ \A i \in 1..Len(ops[o].st) :
                     \A j \in 1..Len(cfgFile'.ports) : cfgFile'.ports[j] # ops[o].st[i].port]_vars

\* C25: whenever the serve process exits, by a signal or by a failure of
\* ListenAndServe, the port configuration and the runner state file have been
\* deleted
C25_ShutdownDeletesFiles ==
    [][(serve \notin {"exit0", "exit1"} /\ serve' \in {"exit0", "exit1"}) =>
          ~cfgFile'.exists /\ ~stateFile'.exists]_vars

\* the port list holds port p
Listed(p) == \E j \in 1..Len(cfgFile.ports) : cfgFile.ports[j] = p

\* C26: no registry update is lost: as long as nobody has asked for a kill or
\* a cleanup, every live worker whose spawn has saved its record has a record,
\* and every live worker whose spawn has saved its port is in the port list
C26_NoLostUpdate ==
    (serve = "running" /\ \A k \in DOMAIN ops : ops[k].cmd \notin {"kill", "killall"}) =>
        \A o \in DOMAIN ops :
            (ops[o].cmd = "spawn" /\ ops[o].pid \in alive) =>
                /\ ops[o].pc \in {"addPortLoad", "addPortSave", "started", "done"} =>
                       HasRecord(ops[o].port)
                /\ ops[o].pc \in {"started", "done"} => Listed(ops[o].port)

\* ------------------------------------------------------------ submit answers
\* C27: submitHandler answers a well-formed POST with 202 in the step that
\* dispatches or queues it, before the judging of that submission has produced
\* anything; a request answered 405 or 400 leaves the queue and what is in
\* flight on every worker as they were and dispatches nothing
C27_SubmitAcknowledges ==
    [][\A s \in SubIds :
          /\ (pc[s] = "submit" /\ pc'[s] # "submit") =>
                /\ acks'[s] = 202
                /\ pc'[s] \in {"send", "queued"}
                /\ status'[s] = "none" /\ reports'[s] = 0
          /\ (acks[s] = 0 /\ acks'[s] \in {405, 400}) =>
                /\ queue' = queue /\ started' = started /\ port' = port
                /\ \A t \in SubIds : t # s => pc'[t] = pc[t]
                /\ pc'[s] = "rejected"]_vars

C27_Witness ==
    \E s, t, u \in SubIds :
        /\ pc[s] = "send" /\ acks[s] = 202 /\ status[s] = "none"
        /\ pc[t] = "queued" /\ acks[t] = 202
        /\ pc[u] = "rejected" /\ acks[u] \in {405, 400}

\* ------------------------------------------------------------ sandbox claims
\* C28: every container created for a test case has no network, the
\* no-new-privileges option, the executable bind-mounted read-only at the
\* fixed in-container path, a non-root user, stdin, stdout and stderr attached
\* with stdin closed after one write, a CPU ceiling equal to cpuCount and, when
\* memoryLimit > 0, a memory ceiling equal to it with swap equal to memory
C28_SandboxContract ==
    cont # "none" =>
        /\ sandbox.networkMode = "none"
        /\ "no-new-privileges" \in sandbox.securityOpt
        /\ sandbox.mount = [type |-> "bind", source |-> "hostExecutablePath",
                            target |-> ContainerExecutablePath, readOnly |-> TRUE]
        /\ sandbox.user \notin {"", "root", "0"}
        /\ sandbox.attachStdin /\ sandbox.attachStdout /\ sandbox.attachStderr
        /\ sandbox.openStdin /\ sandbox.stdinOnce
        /\ 2 * sandbox.nanoCPUs = cpuCount
        /\ (memLimitHi > 0 \/ memLimit > 0) =>
               /\ sandbox.memory = [hi |-> memLimitHi, lo |-> memLimit]
               /\ sandbox.memorySwap = sandbox.memory

\* C29: runTestCaseInDocker has an outcome only when the stdin goroutine has
\* finished and the output goroutine has finished or the bounded wait for it
\* ran out
C29_TasksObservedBeforeOutcome ==
    (tres.result # "none" /\ writer # "none") =>
        /\ writer = "done"
        /\ copy = "done" \/ waited.kind = "status"

\* the test case returned before the wait: create, attach or start failed
FailedBeforeWait == tres.result # "none" /\ waited.kind = "none"

\* C30: attach is reached only with the container created, start only after
\* the attach, and the program, the stdin goroutine and the output goroutine
\* run only after the start; a failure of create, attach or start ends the test
\* case with RuntimeError, or with TimeLimit when the start failed with the
\* judging deadline expired, and none of the later steps has run
C30_CreateAttachStart ==
    /\ tpc = "create" => cont = "none" /\ tres.result = "none"
    /\ tpc \in {"attach", "start"} => cont = "created" /\ tres.result = "none"
    /\ tpc \in {"create", "attach", "start"} =>
           writer = "none" /\ copy = "none" /\ waited.kind = "none"
    /\ FailedBeforeWait =>
           /\ writer = "none" /\ copy = "none"
           /\ cont \notin {"running", "exited"}
           /\ tres.result \in {RuntimeError, TimeLimit}
           /\ tres.result = TimeLimit => judgeCtx = "expired" /\ cont # "none"
           /\ tres.output = <<>>

C30_Witness ==
    /\ tpc = "stop" /\ cont = "created" /\ FailedBeforeWait
    /\ tres.result = TimeLimit /\ judgeCtx = "expired"

\* ------------------------------------------------------------ stdin
\* the input with a newline at its end, the input itself if it has one
WithNewline(input) ==
    IF input # <<>> /\ input[Len(input)] = "\n" THEN input ELSE input \o <<"\n">>

\* C31: once the stdin goroutine has finished there has been one write and
\* one close of the write side, also when the write failed; a write that
\* succeeded carried the input, followed by one newline exactly when the input
\* does not end with one; a write that failed carried a part of that; before
\* the goroutine finishes the write side has not been closed
C31_StdinWriteThenClose ==
    /\ writer # "done" => stdin.closeWrites = 0
    /\ writer = "done" =>
           /\ stdin.writes = 1 /\ stdin.closeWrites = 1
           /\ ~stdin.failed => stdin.written = WithNewline(tc.input)
           /\ stdin.failed =>
                  /\ Len(stdin.written) < Len(WithNewline(tc.input))
                  /\ stdin.written = SubSeq(WithNewline(tc.input), 1, Len(stdin.written))

C31_Witness ==
    /\ writer = "done" /\ stdin.failed /\ stdin.closeWrites = 1
    /\ tc.input # <<>> /\ tc.input[Len(tc.input)] # "\n" /\ stdin.written = tc.input

\* ------------------------------------------------------- sequencing
\* C32: test cases run one after the other and at most one container of the
\* submission exists at any time: when the loop is about to take the next
\* test case, the container of the test case before has been removed
C32_OneContainerAtATime ==
    (jpc = "loop" /\ idx >= 1 /\ idx < nTests) => cont \in {"none", "removed"}

\* ------------------------------------------------------------ mutex
\* a call to a worker or to the internal API is in progress for submission s
InCall(s) == pc[s] \in {"send", "posting"}

\* C33: whoever holds the dispatcher's mutex is inside the critical section of
\* submitHandler or of runnerDoneHandler, and that handler or goroutine has no
\* call to a worker or to the internal API in progress: the mutex is not held
\* over a call, so no Submit and no hand-over waits for a running judge
C33_LockNotHeldOverCalls ==
    mu # 0 => /\ pc[mu] \in {"submitLocked", "doneLocked"}
              /\ ~InCall(mu)

\* a Submit is inside its critical section while a judging call is in progress
C33_Witness ==
    \E s, t \in SubIds : s # t /\ InCall(t) /\ pc[t] = "send" /\ mu = s /\ pc[s] = "submitLocked"

\* ------------------------------------------------------------ report id
\* C34: the report the dispatcher posts for submission s carries s's own id
\* and the verdict of s, in the URL and in the payload; no report carries
\* another id
C34_ReportedUnderOwnId ==
    \A s \in SubIds :
        pc[s] = "posting" =>
            /\ reportRequest(s).id = s
            /\ reportRequest(s).body.submissionId = s
            /\ reportRequest(s).body.status = status[s]

\* ------------------------------------------------------------ the wait
\* C35: a test case is returned as Accepted only when the wait delivered an
\* exit status with code 0 and the normalized output returned equals the
\* normalized expected output; the Accepted that finalResult starts with is
\* never what is returned
C35_AcceptedOnlyWhenClassified ==
    (tpc \in {"stop", "remove", "ret"} /\ tres.result = Accepted) =>
        /\ waited.kind = "status" /\ waited.code = 0
        /\ Normalized(tres.output) = Normalized(tc.expected)

\* ------------------------------------------------------------ busy flag
\* C36: in the dispatcher with one code-runner the busy flag is set exactly
\* while a submission is in flight, that is while its sendToCodeRunner call is
\* running: when the call ends, by an answer or by an error, the next queued
\* submission is dispatched or the flag is cleared
C36_BusyWhileInFlight ==
    busy <=> \E s \in SubIds : pc[s] = "send"

\* ------------------------------------------------------------ no duplicates
\* C37: with the registry commands run one at a time, the runner state never
\* holds two records with the same port and the port list never holds a port
\* twice
C37_NoDuplicatePorts ==
    /\ \A i, j \in 1..Len(stateFile.runners) :
           stateFile.runners[i].port = stateFile.runners[j].port => i = j
    /\ \A i, j \in 1..Len(cfgFile.ports) : cfgFile.ports[i] = cfgFile.ports[j] => i = j

\* a second spawn on a port that was registered already has run to its end
C37_Witness ==
    \E o1, o2 \in DOMAIN ops :
        /\ o1 < o2 /\ ops[o1].cmd = "spawn" /\ ops[o2].cmd = "spawn"
        /\ ops[o1].port = ops[o2].port
        /\ ops[o1].pc = "done" /\ ops[o2].pc = "done"
        /\ HasRecord(ops[o2].port) /\ Listed(ops[o2].port)

\* ------------------------------------------------------------ memory ceiling
\* C38: for every memoryLimit the request parser accepts, the memory and the
\* swap ceiling of the created container are that many MiB in bytes, the
\* number itself and not its remainder after a wraparound
C38_MemoryCeilingExact ==
    cont # "none" =>
        /\ sandbox.memory = [hi |-> memLimitHi, lo |-> memLimit]
        /\ sandbox.memorySwap = [hi |-> memLimitHi, lo |-> memLimit]

====
